---------------------------- MODULE Spec2Model ----------------------------
(***************************************************************************)
(* Model of the signal pipeline of src/types/index.ts: the indicator       *)
(* library (TechnicalIndicators), the 58 strategies (TradingStrategies),   *)
(* getAllSignals and getConsensusSignal.                                    *)
(* After it come the coins page (src/unnamed/part_000), which calls the    *)
(* pipeline on fetched candles, and the route /api/binance-symbols that    *)
(* gives the page its symbols.                                             *)
(*                                                                         *)
(* Numbers.  A JavaScript number is modelled as a fixed-point integer with *)
(* SCALE units per 1.0 (1.02 is 1020, a price of 100 is 100000), or as one *)
(* of three sentinels NaN, PInf, NInf for the IEEE values the code can     *)
(* produce (0/0, x/0, Math.max() of an empty list).  Reading past the end  *)
(* of an array gives `undefined`, which behaves like NaN in every          *)
(* arithmetic operation and comparison the code performs; it is modelled   *)
(* as NaN.  Every operator follows the order of operations of the source.  *)
(* An inexact product or quotient is rounded to the grid away from zero,   *)
(* so that, as in IEEE arithmetic away from underflow, a nonzero result is *)
(* never rounded to zero and keeps its sign.                               *)
(*                                                                         *)
(* Local constants.  A `const` of a function body that the body reads more *)
(* than once is the parameter of a local operator, applied to the          *)
(* initialiser of the `const`, so that it is computed once as in the code. *)
(***************************************************************************)
EXTENDS Integers, Sequences, FiniteSets, TLC

SCALE == 1000

NaN == 2147483647
PInf == 2147483646
NInf == -2147483646
Num(n) == n * SCALE

IsNaN(a) == a = NaN
IsInf(a) == a = PInf \/ a = NInf
IsNum(a) == ~IsNaN(a) /\ ~IsInf(a)

\* sign of a number that is not NaN
Sgn(a) == IF a = PInf THEN 1 ELSE IF a = NInf THEN -1
          ELSE IF a > 0 THEN 1 ELSE IF a < 0 THEN -1 ELSE 0
Mag(a) == IF a < 0 THEN -a ELSE a
Signed(s, m) == IF s < 0 THEN -m ELSE m
InfOf(s) == IF s < 0 THEN NInf ELSE PInf

\* ceiling of m / d for naturals m, d with d > 0
CeilDiv(m, d) == (m + d - 1) \div d

\* integer quotient rounded away from zero, b # 0
Quot(a, b) == Signed(Sgn(a) * Sgn(b), CeilDiv(Mag(a), Mag(b)))

Neg(a) == IF IsNaN(a) THEN NaN ELSE IF a = PInf THEN NInf ELSE IF a = NInf THEN PInf ELSE -a

Add(a, b) == IF IsNaN(a) \/ IsNaN(b) THEN NaN
             ELSE IF IsInf(a) THEN (IF IsInf(b) /\ a # b THEN NaN ELSE a)
             ELSE IF IsInf(b) THEN b
             ELSE a + b

Sub(a, b) == Add(a, Neg(b))

\* a * b on the fixed-point grid; the product is split so that no
\* intermediate value leaves the 32-bit range
Mul(a, b) == IF IsNaN(a) \/ IsNaN(b) THEN NaN
             ELSE IF IsInf(a) \/ IsInf(b)
                  THEN (IF Sgn(a) * Sgn(b) = 0 THEN NaN ELSE InfOf(Sgn(a) * Sgn(b)))
             ELSE LET Product(big, small) ==
                          big * (small \div SCALE) + CeilDiv(big * (small % SCALE), SCALE)
                  IN Signed(Sgn(a) * Sgn(b),
                            Product(IF Mag(a) >= Mag(b) THEN Mag(a) ELSE Mag(b),
                                    IF Mag(a) >= Mag(b) THEN Mag(b) ELSE Mag(a)))

\* a / b on the fixed-point grid, IEEE results for a zero or infinite operand
Div(a, b) == IF IsNaN(a) \/ IsNaN(b) THEN NaN
             ELSE IF IsInf(a) THEN (IF IsInf(b) THEN NaN
                                    ELSE InfOf(Sgn(a) * (IF b < 0 THEN -1 ELSE 1)))
             ELSE IF IsInf(b) THEN 0
             ELSE IF b = 0 THEN (IF a = 0 THEN NaN ELSE InfOf(Sgn(a)))
             ELSE LET Quotient(ma, mb) ==
                          (ma \div mb) * SCALE + CeilDiv((ma % mb) * SCALE, mb)
                  IN Signed(Sgn(a) * Sgn(b), Quotient(Mag(a), Mag(b)))

\* a / n for a plain integer n (a period, a count)
DivI(a, n) == IF IsNaN(a) THEN NaN
              ELSE IF n = 0 THEN (IF a = 0 THEN NaN ELSE InfOf(Sgn(a)))
              ELSE IF IsInf(a) THEN InfOf(Sgn(a) * Sgn(n))
              ELSE Quot(a, n)

\* a * n for a plain integer n
MulI(a, n) == IF IsNaN(a) THEN NaN
              ELSE IF IsInf(a) THEN (IF n = 0 THEN NaN ELSE InfOf(Sgn(a) * Sgn(n)))
              ELSE a * n

\* comparisons: every comparison with NaN is false
Lt(a, b) == ~IsNaN(a) /\ ~IsNaN(b) /\ a < b
Gt(a, b) == Lt(b, a)
Le(a, b) == ~IsNaN(a) /\ ~IsNaN(b) /\ a <= b
Ge(a, b) == Le(b, a)
StrictEq(a, b) == ~IsNaN(a) /\ ~IsNaN(b) /\ a = b

Abs(a) == IF IsNaN(a) THEN NaN ELSE IF IsInf(a) THEN PInf ELSE Mag(a)
Min2First(a, b) == a
Min2(a, b) == IF IsNaN(a) \/ IsNaN(b) THEN NaN ELSE IF a < b THEN a ELSE b
Max2(a, b) == IF IsNaN(a) \/ IsNaN(b) THEN NaN ELSE IF a > b THEN a ELSE b

\* a || b : b when a is falsy (0, NaN, undefined)
OrElse(a, b) == IF IsNaN(a) \/ a = 0 THEN b ELSE a

\* Math.sqrt on the fixed-point grid: the largest r with r*r <= a*SCALE
RECURSIVE SqrtSearch(_, _, _)
SqrtSearch(t, lo, hi) ==
    IF lo >= hi THEN lo
    ELSE LET Halve(mid) ==
                 IF mid <= t \div mid THEN SqrtSearch(t, mid, hi) ELSE SqrtSearch(t, lo, mid - 1)
         IN Halve((lo + hi + 1) \div 2)
Sqrt(a) == IF IsNaN(a) \/ a = NInf THEN NaN
           ELSE IF a = PInf THEN PInf
           ELSE IF a < 0 THEN NaN
           ELSE IF a = 0 THEN 0
           ELSE SqrtSearch(a * SCALE, 0, 46340)

\* Number.prototype.toFixed(d): the value rounded to d decimals, half away from zero
ToFixed(a, d) == IF ~IsNum(a) THEN a
                 ELSE LET Round(unit) == Signed(Sgn(a), ((Mag(a) + unit \div 2) \div unit) * unit)
                      IN Round(IF d = 0 THEN SCALE ELSE IF d = 1 THEN SCALE \div 10
                               ELSE IF d = 2 THEN SCALE \div 100 ELSE 1)

---------------------------------------------------------------------------
(* Arrays *)

\* arr[i] with a 0-based index; undefined outside the array
At(arr, i) == IF i >= 0 /\ i < Len(arr) THEN arr[i + 1] ELSE NaN
Last(arr) == At(arr, Len(arr) - 1)

\* arr.slice(-k)
SliceLast(arr, k) == IF Len(arr) <= k THEN arr ELSE SubSeq(arr, Len(arr) - k + 1, Len(arr))
\* arr.slice(0, k)
SliceFirst(arr, k) == IF Len(arr) <= k THEN arr ELSE SubSeq(arr, 1, k)

\* The folds below run over the elements lo..hi of an array.  Add, Max2 and
\* Min2 are exact on the grid and associative, so the left-to-right fold of
\* the source is computed over the two halves of the range, which keeps the
\* depth of the evaluation logarithmic in the length.

\* arr.reduce((sum, v) => sum + v, 0)
RECURSIVE SumRange(_, _, _)
SumRange(arr, lo, hi) ==
    IF lo > hi THEN 0
    ELSE IF lo = hi THEN Add(0, arr[lo])
    ELSE Add(SumRange(arr, lo, (lo + hi) \div 2), SumRange(arr, (lo + hi) \div 2 + 1, hi))
Sum(arr) == SumRange(arr, 1, Len(arr))

\* Math.max(...arr), Math.min(...arr)
RECURSIVE MaxRange(_, _, _)
MaxRange(arr, lo, hi) ==
    IF lo > hi THEN NInf
    ELSE IF lo = hi THEN Max2(NInf, arr[lo])
    ELSE Max2(MaxRange(arr, lo, (lo + hi) \div 2), MaxRange(arr, (lo + hi) \div 2 + 1, hi))
MaxOf(arr) == MaxRange(arr, 1, Len(arr))
RECURSIVE MinRange(_, _, _)
MinRange(arr, lo, hi) ==
    IF lo > hi THEN PInf
    ELSE IF lo = hi THEN Min2(PInf, arr[lo])
    ELSE Min2(MinRange(arr, lo, (lo + hi) \div 2), MinRange(arr, (lo + hi) \div 2 + 1, hi))
MinOf(arr) == MinRange(arr, 1, Len(arr))

---------------------------------------------------------------------------
(* TechnicalIndicators *)

calculateSMAAvailable(prices, period) ==
    DivI(Sum(SliceLast(prices, period)), Len(SliceLast(prices, period)))

calculateSMAOldest(prices, period) ==
    IF Len(prices) < period THEN 0
    ELSE DivI(Sum(SliceFirst(prices, period)), period)

calculateSMA(prices, period) ==
    IF Len(prices) < period THEN 0
    ELSE DivI(Sum(SliceLast(prices, period)), period)

\* one pass of the loop body: ema = (prices[i] - ema) * multiplier + ema, with
\* multiplier = 2 / (period + 1)
EmaStep(price, period, ema) == Add(DivI(MulI(Sub(price, ema), 2), period + 1), ema)

\* the loop for (i = lo; i < hi; i++) started from ema: the passes lo..mid-1,
\* then the passes mid..hi-1 from their result
RECURSIVE EmaLoop(_, _, _, _, _)
EmaLoop(prices, period, lo, hi, ema) ==
    IF lo >= hi THEN ema
    ELSE IF hi = lo + 1 THEN EmaStep(At(prices, lo), period, ema)
    ELSE LET Rest(first) ==
                 IF first = first THEN EmaLoop(prices, period, (lo + hi) \div 2, hi, first)
                 ELSE first
         IN Rest(EmaLoop(prices, period, lo, (lo + hi) \div 2, ema))

calculateEMA(prices, period) ==
    IF Len(prices) < period THEN 0
    ELSE EmaLoop(prices, period, period, Len(prices),
                 calculateSMA(SliceFirst(prices, period), period))

calculateRSIGuardAtPeriod(prices, period) ==
    IF Len(prices) < period THEN [value |-> Num(50), signal |-> "HOLD", strength |-> 0]
    ELSE LET Gain(change) == IF Gt(change, 0) THEN change ELSE 0
             Loss(change) == IF Gt(change, 0) THEN 0 ELSE Neg(change)
             gains == [i \in 1..(Len(prices) - 1) |-> Gain(Sub(At(prices, i), At(prices, i - 1)))]
             losses == [i \in 1..(Len(prices) - 1) |-> Loss(Sub(At(prices, i), At(prices, i - 1)))]
             avgGain == DivI(Sum(SliceLast(gains, period)), period)
             avgLoss == DivI(Sum(SliceLast(losses, period)), period)
             rs == Div(avgGain, avgLoss)
             Result(rsi) ==
                 IF Lt(rsi, Num(30))
                 THEN [value |-> rsi, signal |-> "BUY", strength |-> DivI(Sub(Num(30), rsi), 30)]
                 ELSE IF Gt(rsi, Num(70))
                 THEN [value |-> rsi, signal |-> "SELL", strength |-> DivI(Sub(rsi, Num(70)), 30)]
                 ELSE [value |-> rsi, signal |-> "HOLD", strength |-> 0]
         IN Result(Sub(Num(100), Div(Num(100), Add(Num(1), rs))))

calculateRSI(prices, period) ==
    IF Len(prices) < period + 1 THEN [value |-> Num(50), signal |-> "HOLD", strength |-> 0]
    ELSE LET Gain(change) == IF Gt(change, 0) THEN change ELSE 0
             Loss(change) == IF Gt(change, 0) THEN 0 ELSE Neg(change)
             gains == [i \in 1..(Len(prices) - 1) |-> Gain(Sub(At(prices, i), At(prices, i - 1)))]
             losses == [i \in 1..(Len(prices) - 1) |-> Loss(Sub(At(prices, i), At(prices, i - 1)))]
             avgGain == DivI(Sum(SliceLast(gains, period)), period)
             avgLoss == DivI(Sum(SliceLast(losses, period)), period)
             rs == Div(avgGain, avgLoss)
             Result(rsi) ==
                 IF Lt(rsi, Num(30))
                 THEN [value |-> rsi, signal |-> "BUY", strength |-> DivI(Sub(Num(30), rsi), 30)]
                 ELSE IF Gt(rsi, Num(70))
                 THEN [value |-> rsi, signal |-> "SELL", strength |-> DivI(Sub(rsi, Num(70)), 30)]
                 ELSE [value |-> rsi, signal |-> "HOLD", strength |-> 0]
         IN Result(Sub(Num(100), Div(Num(100), Add(Num(1), rs))))

calculateMACDSignalFullSeries(prices) ==
    IF Len(prices) < 26 THEN [macd |-> 0, signal |-> 0, histogram |-> 0]
    ELSE LET ema12 == calculateEMA(prices, 12)
             ema26 == calculateEMA(prices, 26)
             Result(macdLine, signalLine) ==
                 [macd |-> macdLine, signal |-> signalLine, histogram |-> Sub(macdLine, signalLine)]
         IN Result(Sub(ema12, ema26), calculateEMA(prices, 9))

calculateMACD(prices) ==
    IF Len(prices) < 26 THEN [macd |-> 0, signal |-> 0, histogram |-> 0]
    ELSE LET ema12 == calculateEMA(prices, 12)
             ema26 == calculateEMA(prices, 26)
             Result(macdLine, signalLine) ==
                 [macd |-> macdLine, signal |-> signalLine, histogram |-> Sub(macdLine, signalLine)]
         IN Result(Sub(ema12, ema26), calculateEMA(SliceLast(prices, 26), 9))

calculateBollingerBands(prices, period) ==
    IF Len(prices) < period THEN [upper |-> 0, middle |-> 0, lower |-> 0]
    ELSE LET Square(d) == Mul(d, d)
             Squares(win, sma) == [i \in 1..Len(win) |-> Square(Sub(win[i], sma))]
             Bands(sma, stdDev) ==
                 [upper |-> Add(sma, MulI(stdDev, 2)), middle |-> sma, lower |-> Sub(sma, MulI(stdDev, 2))]
             Result(sma) ==
                 Bands(sma, Sqrt(DivI(Sum(Squares(SliceLast(prices, period), sma)), period)))
         IN Result(calculateSMA(prices, period))

calculateStochasticUnscaled(prices, high, low, period) ==
    IF Len(prices) < period THEN [value |-> Num(50), signal |-> "HOLD", strength |-> 0]
    ELSE LET recentHigh == MaxOf(SliceLast(high, period))
             currentPrice == Last(prices)
             K(recentLow) ==
                 MulI(Div(Sub(currentPrice, recentLow), Sub(recentHigh, recentLow)), 100)
             Result(k) ==
                 IF Lt(k, Num(20))
                 THEN [value |-> k, signal |-> "BUY", strength |-> Sub(Num(20), k)]
                 ELSE IF Gt(k, Num(80))
                 THEN [value |-> k, signal |-> "SELL", strength |-> Sub(k, Num(80))]
                 ELSE [value |-> k, signal |-> "HOLD", strength |-> 0]
         IN Result(K(MinOf(SliceLast(low, period))))

calculateStochastic(prices, high, low, period) ==
    IF Len(prices) < period THEN [value |-> Num(50), signal |-> "HOLD", strength |-> 0]
    ELSE LET recentHigh == MaxOf(SliceLast(high, period))
             currentPrice == Last(prices)
             K(recentLow) ==
                 MulI(Div(Sub(currentPrice, recentLow), Sub(recentHigh, recentLow)), 100)
             Result(k) ==
                 IF Lt(k, Num(20))
                 THEN [value |-> k, signal |-> "BUY", strength |-> DivI(Sub(Num(20), k), 20)]
                 ELSE IF Gt(k, Num(80))
                 THEN [value |-> k, signal |-> "SELL", strength |-> DivI(Sub(k, Num(80)), 20)]
                 ELSE [value |-> k, signal |-> "HOLD", strength |-> 0]
         IN Result(K(MinOf(SliceLast(low, period))))

calculateCCI(prices, high, low, period) ==
    IF Len(prices) < period THEN 0
    ELSE LET Deviations(win, sma) == [i \in 1..Len(win) |-> Abs(Sub(win[i], sma))]
             Cci(typicalPrices, sma, meanDeviation) ==
                 IF StrictEq(meanDeviation, 0) THEN 0
                 ELSE Div(Sub(Last(typicalPrices), sma), Mul(15, meanDeviation))
             WithSma(typicalPrices, sma) ==
                 Cci(typicalPrices, sma,
                     DivI(Sum(Deviations(SliceLast(typicalPrices, period), sma)), period))
             Result(typicalPrices) ==
                 WithSma(typicalPrices, calculateSMA(typicalPrices, period))
         IN Result([i \in 1..Len(prices) |->
                       DivI(Add(Add(prices[i], At(high, i - 1)), At(low, i - 1)), 3)])

calculateATR(high, low, prices, period) ==
    IF Len(high) < period THEN 0
    ELSE LET trValues == [i \in 1..(Len(high) - 1) |->
                             Max2(Max2(Sub(At(high, i), At(low, i)),
                                       Abs(Sub(At(high, i), At(prices, i - 1)))),
                                  Abs(Sub(At(low, i), At(prices, i - 1))))]
         IN calculateSMA(trValues, period)

---------------------------------------------------------------------------
(* Strings built by template literals *)

Digits(n, width) == IF width = 2 /\ n < 10 THEN "0" \o ToString(n)
                    ELSE IF width = 3 /\ n < 10 THEN "00" \o ToString(n)
                    ELSE IF width = 3 /\ n < 100 THEN "0" \o ToString(n)
                    ELSE ToString(n)

\* x.toFixed(d) as text, d in 1..2
FixedStr(a, d) ==
    IF IsNaN(a) THEN "NaN"
    ELSE IF a = PInf THEN "Infinity"
    ELSE IF a = NInf THEN "-Infinity"
    ELSE LET Text(r) ==
                 (IF a < 0 THEN "-" ELSE "") \o ToString(r \div SCALE) \o "."
                 \o Digits((r % SCALE) \div (IF d = 1 THEN SCALE \div 10 ELSE SCALE \div 100), d)
         IN Text(Mag(ToFixed(a, d)))

---------------------------------------------------------------------------
(* TradingStrategies *)

SignalKeepConfidence(symbol, action, confidence, price, now, duration, reason, stopLoss, takeProfit, leverage) ==
    [symbol |-> symbol, action |-> action, confidence |-> confidence,
     price |-> price, timestamp |-> now, duration |-> duration, reason |-> reason,
     stopLoss |-> stopLoss, takeProfit |-> takeProfit, leverage |-> leverage]

\* the object literal every strategy returns
Signal(symbol, action, confidence, price, now, duration, reason, stopLoss, takeProfit, leverage) ==
    [symbol |-> symbol, action |-> action,
     confidence |-> IF action = "HOLD" THEN 0 ELSE confidence,
     price |-> price, timestamp |-> now, duration |-> duration, reason |-> reason,
     stopLoss |-> stopLoss, takeProfit |-> takeProfit, leverage |-> leverage]

createHoldSignalSymbolReason(prices, symbol, now, reason) ==
    [symbol |-> symbol, action |-> "HOLD", confidence |-> 0, price |-> Last(prices),
     timestamp |-> now, duration |-> "N/A", reason |-> symbol \o ": " \o reason,
     stopLoss |-> 0, takeProfit |-> 0, leverage |-> 1]

\* the outcome of a call that raises instead of returning
Fault == [fault |-> "TypeError"]
createHoldSignalFaultOnEmpty(prices, symbol, now, reason) ==
    IF Len(prices) = 0 THEN Fault
    ELSE [symbol |-> symbol, action |-> "HOLD", confidence |-> 0, price |-> Last(prices),
          timestamp |-> now, duration |-> "N/A", reason |-> reason,
          stopLoss |-> 0, takeProfit |-> 0, leverage |-> 1]

\* the literal returned by the insufficient-data guards and by createHoldSignal
createHoldSignal(prices, symbol, now, reason) ==
    [symbol |-> symbol, action |-> "HOLD", confidence |-> 0, price |-> Last(prices),
     timestamp |-> now, duration |-> "N/A", reason |-> reason,
     stopLoss |-> 0, takeProfit |-> 0, leverage |-> 1]

B(cond) == IF cond THEN 1 ELSE 0
VoteTieBuys(buySignals, sellSignals) ==
    IF buySignals >= sellSignals THEN "BUY" ELSE "SELL"
Vote(buySignals, sellSignals) ==
    IF buySignals > sellSignals THEN "BUY" ELSE IF sellSignals > buySignals THEN "SELL" ELSE "HOLD"
\* if (cond) { totalConfidence += amount; }: the amount the statement adds
Plus(cond, amount) == IF cond THEN amount ELSE 0
\* action === 'BUY' ? a : b
IfBuy(action, a, b) == IF action = "BUY" THEN a ELSE b

multiTimeframeRSI(prices, high, low, symbol, now) ==
    LET From(rsi5, rsi14, rsi21, sma20) ==
            LET currentPrice == Last(prices)
                up == Gt(currentPrice, Mul(sma20, 1020))
                down == Lt(currentPrice, Mul(sma20, 980))
                buySignals == B(rsi5.signal = "BUY") + B(rsi14.signal = "BUY") + B(rsi21.signal = "BUY") + B(up)
                sellSignals == B(rsi5.signal = "SELL") + B(rsi14.signal = "SELL") + B(rsi21.signal = "SELL") + B(down)
                totalConfidence ==
                    Add(Add(Add(Add(Plus(rsi5.signal # "HOLD", rsi5.strength),
                                    Plus(rsi14.signal # "HOLD", rsi14.strength)),
                                Plus(rsi21.signal # "HOLD", rsi21.strength)),
                            Plus(up, 200)),
                        Plus(down, 200))
                confidence == Min2(DivI(totalConfidence, 4), 950)
                Emit(action) ==
                    Signal(symbol, action, confidence, currentPrice, now, "15m-1h",
                           "Multi-timeframe RSI: " \o ToString(buySignals) \o "B/" \o ToString(sellSignals) \o "S signals",
                           IfBuy(action, Mul(currentPrice, 980), Mul(currentPrice, 1020)),
                           IfBuy(action, Mul(currentPrice, 1040), Mul(currentPrice, 960)), 3)
            IN Emit(Vote(buySignals, sellSignals))
    IN From(calculateRSI(SliceLast(prices, 5), 5),
            calculateRSI(prices, 14),
            calculateRSI(SliceLast(prices, 21), 21),
            calculateSMA(prices, 20))

trendFollowingMACD(prices, symbol, now) ==
    LET From(macd, ema21) ==
            LET ema9 == calculateEMA(prices, 9)
                currentPrice == Last(prices)
                macdBuy == Gt(macd.macd, macd.signal) /\ Gt(macd.histogram, 0)
                macdSell == Lt(macd.macd, macd.signal) /\ Lt(macd.histogram, 0)
                emaBuy == Gt(ema9, ema21)
                priceBuy == Gt(currentPrice, ema21)
                buySignals == B(macdBuy) + B(emaBuy) + B(priceBuy)
                sellSignals == B(macdSell) + B(~emaBuy) + B(~priceBuy)
                totalConfidence ==
                    Add(Add(Plus(macdBuy \/ macdSell, Min2(MulI(Abs(macd.histogram), 100), 300)), 200), 100)
                confidence == Min2(DivI(totalConfidence, 3), 900)
                Emit(action) ==
                    Signal(symbol, action, confidence, currentPrice, now, "1h-4h",
                           "Trend Following: MACD " \o (IF Gt(macd.histogram, 0) THEN "Bullish" ELSE "Bearish")
                               \o ", EMA" \o (IF emaBuy THEN " Bull" ELSE " Bear"),
                           IfBuy(action, Mul(currentPrice, 970), Mul(currentPrice, 1030)),
                           IfBuy(action, Mul(currentPrice, 1060), Mul(currentPrice, 940)), 5)
            IN Emit(Vote(buySignals, sellSignals))
    IN From(calculateMACD(prices),
            calculateEMA(prices, 21))

meanReversionBB(prices, high, low, symbol, now) ==
    LET From(bb, rsi, stochastic) ==
            LET currentPrice == Last(prices)
                below == Lt(currentPrice, bb.lower)
                above == Gt(currentPrice, bb.upper)
                buySignals == B(below) + B(rsi.signal = "BUY") + B(stochastic.signal = "BUY")
                sellSignals == B(above) + B(rsi.signal = "SELL") + B(stochastic.signal = "SELL")
                totalConfidence ==
                    Add(Add(Add(Plus(below, Min2(MulI(Div(Sub(bb.lower, currentPrice), bb.lower), 1000), 400)),
                                Plus(above, Min2(MulI(Div(Sub(currentPrice, bb.upper), bb.upper), 1000), 400))),
                            Plus(rsi.signal # "HOLD", rsi.strength)),
                        Plus(stochastic.signal # "HOLD", stochastic.strength))
                confidence == Min2(DivI(totalConfidence, 3), 850)
                Emit(action) ==
                    Signal(symbol, action, confidence, currentPrice, now, "5m-15m",
                           "Mean Reversion: BB" \o (IF below THEN " Oversold" ELSE " Overbought")
                               \o ", RSI:" \o FixedStr(rsi.value, 1),
                           IfBuy(action, Mul(currentPrice, 990), Mul(currentPrice, 1010)),
                           bb.middle, 2)
            IN Emit(Vote(buySignals, sellSignals))
    IN From(calculateBollingerBands(prices, 20),
            calculateRSI(prices, 14),
            calculateStochastic(prices, high, low, 14))

volumeWeightedMACD(prices, volumes, symbol, now) ==
    IF Len(prices) < 26 \/ Len(volumes) < 26
    THEN createHoldSignal(prices, symbol, now, "Insufficient data for VW-MACD")
    ELSE LET vwPrices == [i \in 1..Len(prices) |-> Mul(prices[i], OrElse(At(volumes, i - 1), Num(1)))]
             From(macd) ==
                 LET currentPrice == Last(prices)
                     buy == Gt(macd.macd, macd.signal) /\ Gt(macd.histogram, 0)
                     sell == Lt(macd.macd, macd.signal) /\ Lt(macd.histogram, 0)
                     confidence == Min2(MulI(Abs(macd.histogram), 200), 900)
                     Emit(action) ==
                         Signal(symbol, action, confidence, currentPrice, now, "1h-4h",
                                "Volume-Weighted MACD: " \o (IF Gt(macd.histogram, 0) THEN "Bullish" ELSE "Bearish"),
                                IfBuy(action, Mul(currentPrice, 970), Mul(currentPrice, 1030)),
                                IfBuy(action, Mul(currentPrice, 1060), Mul(currentPrice, 940)), 4)
                 IN Emit(IF buy THEN "BUY" ELSE IF sell THEN "SELL" ELSE "HOLD")
         IN From(calculateMACD(vwPrices))

ichimokuCloud(prices, symbol, now) ==
    IF Len(prices) < 52
    THEN createHoldSignal(prices, symbol, now, "Insufficient data for Ichimoku")
    ELSE LET From(conversionLine, baseLine, leadingSpanB) ==
                 LET currentPrice == Last(prices)
                     leadingSpanA == DivI(Add(conversionLine, baseLine), 2)
                     Emit(action) ==
                         Signal(symbol, action, 850, currentPrice, now, "4h-1d",
                                "Ichimoku Cloud: " \o (IF action = "BUY" THEN "Price above cloud"
                                                       ELSE IF action = "SELL" THEN "Price below cloud" ELSE "Neutral"),
                                IfBuy(action, Mul(currentPrice, 980), Mul(currentPrice, 1020)),
                                IfBuy(action, Mul(currentPrice, 1050), Mul(currentPrice, 950)), 3)
                 IN Emit(IF Gt(currentPrice, leadingSpanA) /\ Gt(currentPrice, leadingSpanB)
                            /\ Gt(conversionLine, baseLine) THEN "BUY"
                         ELSE IF Lt(currentPrice, leadingSpanA) /\ Lt(currentPrice, leadingSpanB)
                            /\ Lt(conversionLine, baseLine) THEN "SELL"
                         ELSE "HOLD")
         IN From(DivI(Add(MaxOf(SliceLast(prices, 9)), MinOf(SliceLast(prices, 9))), 2),
                 DivI(Add(MaxOf(SliceLast(prices, 26)), MinOf(SliceLast(prices, 26))), 2),
                 DivI(Add(MaxOf(SliceLast(prices, 52)), MinOf(SliceLast(prices, 52))), 2))

supertrendStrategy(prices, high, low, symbol, now) ==
    IF Len(prices) < 20
    THEN createHoldSignal(prices, symbol, now, "Insufficient data for Supertrend")
    ELSE LET From(sma10, sma20) ==
                 LET currentPrice == Last(prices)
                     Emit(action) ==
                         Signal(symbol, action, 750, currentPrice, now, "30m-2h",
                                "Supertrend: " \o (IF action = "BUY" THEN "Uptrend confirmed"
                                                   ELSE IF action = "SELL" THEN "Downtrend confirmed" ELSE "No trend"),
                                IfBuy(action, Mul(currentPrice, 980), Mul(currentPrice, 1020)),
                                IfBuy(action, Mul(currentPrice, 1040), Mul(currentPrice, 960)), 4)
                 IN Emit(IF Gt(currentPrice, sma10) /\ Gt(sma10, sma20) THEN "BUY"
                         ELSE IF Lt(currentPrice, sma10) /\ Lt(sma10, sma20) THEN "SELL"
                         ELSE "HOLD")
         IN From(calculateSMA(prices, 10),
                 calculateSMA(prices, 20))

parabolicSARPriorBars(prices, high, low, symbol, now) ==
    IF Len(prices) < 10
    THEN createHoldSignal(prices, symbol, now, "Insufficient data for Parabolic SAR")
    ELSE LET From(recentHigh, recentLow) ==
                 LET currentPrice == Last(prices)
                     Emit(action) ==
                         Signal(symbol, action, 750, currentPrice, now, "1h-6h",
                                "Parabolic SAR: " \o (IF action = "BUY" THEN "Trend reversal up"
                                                      ELSE IF action = "SELL" THEN "Trend reversal down" ELSE "No reversal"),
                                IfBuy(action, recentLow, recentHigh),
                                IfBuy(action, Mul(currentPrice, 1030), Mul(currentPrice, 970)), 3)
                 IN Emit(IF Gt(currentPrice, Mul(recentHigh, 1010)) THEN "BUY"
                         ELSE IF Lt(currentPrice, Mul(recentLow, 990)) THEN "SELL"
                         ELSE "HOLD")
         IN From(MaxOf(SliceLast(SliceFirst(high, Len(high) - 1), 5)),
                 MinOf(SliceLast(SliceFirst(low, Len(low) - 1), 5)))

parabolicSAR(prices, high, low, symbol, now) ==
    IF Len(prices) < 10
    THEN createHoldSignal(prices, symbol, now, "Insufficient data for Parabolic SAR")
    ELSE LET From(recentHigh, recentLow) ==
                 LET currentPrice == Last(prices)
                     Emit(action) ==
                         Signal(symbol, action, 750, currentPrice, now, "1h-6h",
                                "Parabolic SAR: " \o (IF action = "BUY" THEN "Trend reversal up"
                                                      ELSE IF action = "SELL" THEN "Trend reversal down" ELSE "No reversal"),
                                IfBuy(action, recentLow, recentHigh),
                                IfBuy(action, Mul(currentPrice, 1030), Mul(currentPrice, 970)), 3)
                 IN Emit(IF Gt(currentPrice, Mul(recentHigh, 1010)) THEN "BUY"
                         ELSE IF Lt(currentPrice, Mul(recentLow, 990)) THEN "SELL"
                         ELSE "HOLD")
         IN From(MaxOf(SliceLast(high, 5)),
                 MinOf(SliceLast(low, 5)))

adxMomentum(prices, high, low, symbol, now) ==
    IF Len(prices) < 14
    THEN createHoldSignal(prices, symbol, now, "Insufficient data for ADX")
    ELSE LET currentPrice == Last(prices)
             past == At(prices, Len(prices) - 5)
             recentTrend == IF Gt(currentPrice, past) THEN "UP" ELSE "DOWN"
             volatility == Abs(Div(Sub(currentPrice, past), past))
             confidence == Min2(MulI(volatility, 10), 800)
             Emit(action) ==
                 Signal(symbol, action, confidence, currentPrice, now, "2h-1d",
                        "ADX Momentum: " \o recentTrend \o " trend with "
                            \o FixedStr(MulI(volatility, 100), 1) \o "% volatility",
                        IfBuy(action, Mul(currentPrice, 980), Mul(currentPrice, 1020)),
                        IfBuy(action, Mul(currentPrice, 1050), Mul(currentPrice, 950)), 2)
         IN Emit(IF recentTrend = "UP" /\ Gt(volatility, 20) THEN "BUY"
                 ELSE IF recentTrend = "DOWN" /\ Gt(volatility, 20) THEN "SELL"
                 ELSE "HOLD")

rsiDivergence(prices, high, low, symbol, now) ==
    LET From(rsi) ==
            LET currentPrice == Last(prices)
                past == At(prices, Len(prices) - 5)
                Emit(action) ==
                    Signal(symbol, action, 700, currentPrice, now, "1h-4h",
                           "RSI Divergence: " \o FixedStr(rsi.value, 1),
                           IfBuy(action, Mul(currentPrice, 980), Mul(currentPrice, 1020)),
                           IfBuy(action, Mul(currentPrice, 1030), Mul(currentPrice, 970)), 3)
            IN Emit(IF Lt(rsi.value, Num(30)) /\ Gt(currentPrice, past) THEN "BUY"
                    ELSE IF Gt(rsi.value, Num(70)) /\ Lt(currentPrice, past) THEN "SELL"
                    ELSE "HOLD")
    IN From(calculateRSI(prices, 14))

macdHistogram(prices, symbol, now) ==
    LET From(macd) ==
            LET currentPrice == Last(prices)
                half == Mul(macd.signal, 500)
                confidence == Min2(MulI(Abs(macd.histogram), 150), 800)
                Emit(action) ==
                    Signal(symbol, action, confidence, currentPrice, now, "30m-2h",
                           "MACD Histogram: " \o (IF Gt(macd.histogram, 0) THEN "Bullish" ELSE "Bearish") \o " momentum",
                           IfBuy(action, Mul(currentPrice, 980), Mul(currentPrice, 1020)),
                           IfBuy(action, Mul(currentPrice, 1040), Mul(currentPrice, 960)), 4)
            IN Emit(IF Gt(macd.histogram, 0) /\ Gt(macd.histogram, half) THEN "BUY"
                    ELSE IF Lt(macd.histogram, 0) /\ Lt(macd.histogram, half) THEN "SELL"
                    ELSE "HOLD")
    IN From(calculateMACD(prices))

bollingerSqueeze(prices, high, low, symbol, now) ==
    LET From(bb) ==
            LET currentPrice == Last(prices)
                bbWidth == Div(Sub(bb.upper, bb.lower), bb.middle)
                Emit(action) ==
                    Signal(symbol, action, 800, currentPrice, now, "15m-1h",
                           "Bollinger Squeeze: Breakout expected",
                           IfBuy(action, bb.lower, bb.upper),
                           IfBuy(action, Mul(currentPrice, 1050), Mul(currentPrice, 950)), 5)
            IN Emit(IF Lt(bbWidth, 100)
                    THEN (IF Gt(currentPrice, bb.middle) THEN "BUY" ELSE "SELL")
                    ELSE "HOLD")
    IN From(calculateBollingerBands(prices, 20))

stochasticOscillator(prices, high, low, symbol, now) ==
    LET From(stochastic) ==
            LET currentPrice == Last(prices)
                Emit(action) ==
                    Signal(symbol, action, 700, currentPrice, now, "15m-1h",
                           "Stochastic: " \o FixedStr(stochastic.value, 1),
                           IfBuy(action, Mul(currentPrice, 990), Mul(currentPrice, 1010)),
                           IfBuy(action, Mul(currentPrice, 1030), Mul(currentPrice, 970)), 3)
            IN Emit(IF Lt(stochastic.value, Num(20)) THEN "BUY"
                    ELSE IF Gt(stochastic.value, Num(80)) THEN "SELL"
                    ELSE "HOLD")
    IN From(calculateStochastic(prices, high, low, 14))

williamsR(prices, high, low, symbol, now) ==
    LET From(highestHigh) ==
            LET currentPrice == Last(prices)
                lowestLow == MinOf(SliceLast(low, 14))
                wr == MulI(Div(Sub(highestHigh, currentPrice), Sub(highestHigh, lowestLow)), -100)
                Emit(action) ==
                    Signal(symbol, action, 700, currentPrice, now, "15m-1h",
                           "Williams %R: " \o FixedStr(wr, 1),
                           IfBuy(action, Mul(currentPrice, 990), Mul(currentPrice, 1010)),
                           IfBuy(action, Mul(currentPrice, 1030), Mul(currentPrice, 970)), 3)
            IN Emit(IF Lt(wr, Num(-80)) THEN "BUY"
                    ELSE IF Gt(wr, Num(-20)) THEN "SELL"
                    ELSE "HOLD")
    IN From(MaxOf(SliceLast(high, 14)))

cciStrategy(prices, high, low, symbol, now) ==
    LET From(cci) ==
            LET currentPrice == Last(prices)
                Emit(action) ==
                    Signal(symbol, action, 700, currentPrice, now, "30m-2h",
                           "CCI: " \o FixedStr(cci, 1),
                           IfBuy(action, Mul(currentPrice, 990), Mul(currentPrice, 1010)),
                           IfBuy(action, Mul(currentPrice, 1030), Mul(currentPrice, 970)), 3)
            IN Emit(IF Lt(cci, Num(-100)) THEN "BUY"
                    ELSE IF Gt(cci, Num(100)) THEN "SELL"
                    ELSE "HOLD")
    IN From(calculateCCI(prices, high, low, 20))

atrBreakout(prices, high, low, symbol, now) ==
    LET From(atr) ==
            LET currentPrice == Last(prices)
                prevPrice == At(prices, Len(prices) - 2)
                Emit(action) ==
                    Signal(symbol, action, 750, currentPrice, now, "1h-4h",
                           "ATR Breakout: " \o FixedStr(MulI(Div(atr, currentPrice), 100), 2) \o "% volatility",
                           IfBuy(action, Sub(currentPrice, Mul(atr, 1500)), Add(currentPrice, Mul(atr, 1500))),
                           IfBuy(action, Add(currentPrice, MulI(atr, 2)), Sub(currentPrice, MulI(atr, 2))), 4)
            IN Emit(IF Gt(currentPrice, Add(prevPrice, atr)) THEN "BUY"
                    ELSE IF Lt(currentPrice, Sub(prevPrice, atr)) THEN "SELL"
                    ELSE "HOLD")
    IN From(calculateATR(high, low, prices, 14))

vwapStrategy(prices, volumes, high, low, symbol, now) ==
    IF Len(prices) < 20 \/ Len(volumes) < 20
    THEN createHoldSignal(prices, symbol, now, "Insufficient data for VWAP")
    ELSE LET typicalPrices == [i \in 1..Len(prices) |->
                                  DivI(Add(Add(prices[i], At(high, i - 1)), At(low, i - 1)), 3)]
             weighted == [i \in 1..Len(prices) |-> Mul(typicalPrices[i], At(volumes, i - 1))]
             From(vwap) ==
                 LET currentPrice == Last(prices)
                     Emit(action) ==
                         Signal(symbol, action, 700, currentPrice, now, "1h-4h",
                                "VWAP: Price " \o (IF Gt(currentPrice, vwap) THEN "above" ELSE "below") \o " VWAP",
                                vwap,
                                IfBuy(action, Mul(currentPrice, 1020), Mul(currentPrice, 980)), 3)
                 IN Emit(IF Gt(currentPrice, Mul(vwap, 1010)) THEN "BUY"
                         ELSE IF Lt(currentPrice, Mul(vwap, 990)) THEN "SELL"
                         ELSE "HOLD")
         IN From(Div(Sum(weighted), Sum(volumes)))

fibonacciRetracement(prices, high, low, symbol, now) ==
    LET From(recentHigh, recentLow) ==
            LET currentPrice == Last(prices)
                diff == Sub(recentHigh, recentLow)
                level236 == Sub(recentHigh, Mul(diff, 236))
                level382 == Sub(recentHigh, Mul(diff, 382))
                level500 == Sub(recentHigh, Mul(diff, 500))
                level618 == Sub(recentHigh, Mul(diff, 618))
                Emit(action) ==
                    Signal(symbol, action, 800, currentPrice, now, "4h-1d",
                           "Fibonacci: " \o (IF action = "BUY" THEN "Support" ELSE "Resistance") \o " level",
                           IfBuy(action, recentLow, recentHigh),
                           IfBuy(action, level382, level500), 2)
            IN Emit(IF Le(currentPrice, level618) /\ Gt(currentPrice, recentLow) THEN "BUY"
                    ELSE IF Ge(currentPrice, level236) /\ Lt(currentPrice, recentHigh) THEN "SELL"
                    ELSE "HOLD")
    IN From(MaxOf(SliceLast(high, 20)),
            MinOf(SliceLast(low, 20)))

pivotPoints(prices, high, low, symbol, now) ==
    LET currentPrice == Last(prices)
        prevHigh == OrElse(At(high, Len(high) - 2), currentPrice)
        prevLow == OrElse(At(low, Len(low) - 2), currentPrice)
        prevClose == OrElse(At(prices, Len(prices) - 2), currentPrice)
        pivot == DivI(Add(Add(prevHigh, prevLow), prevClose), 3)
        r1 == Sub(MulI(pivot, 2), prevLow)
        s1 == Sub(MulI(pivot, 2), prevHigh)
        Emit(action) ==
            Signal(symbol, action, 700, currentPrice, now, "1h-4h",
                   "Pivot Points: " \o (IF action = "BUY" THEN "Above R1" ELSE "Below S1"),
                   pivot,
                   IfBuy(action, Mul(currentPrice, 1020), Mul(currentPrice, 980)), 3)
    IN Emit(IF Gt(currentPrice, r1) THEN "BUY"
            ELSE IF Lt(currentPrice, s1) THEN "SELL"
            ELSE "HOLD")

movingAverageCross(prices, symbol, now) ==
    LET From(sma10, sma20) ==
            LET currentPrice == Last(prices)
                Emit(action) ==
                    Signal(symbol, action, 750, currentPrice, now, "30m-2h",
                           "MA Cross: SMA10 " \o (IF Gt(sma10, sma20) THEN "above" ELSE "below") \o " SMA20",
                           IfBuy(action, Mul(currentPrice, 980), Mul(currentPrice, 1020)),
                           IfBuy(action, Mul(currentPrice, 1040), Mul(currentPrice, 960)), 4)
            IN Emit(IF Gt(sma10, sma20) THEN "BUY"
                    ELSE IF Lt(sma10, sma20) THEN "SELL"
                    ELSE "HOLD")
    IN From(calculateSMA(prices, 10),
            calculateSMA(prices, 20))

emaRibbon(prices, symbol, now) ==
    LET From(ema8, ema13, ema21, ema34) ==
            LET currentPrice == Last(prices)
                Emit(action) ==
                    Signal(symbol, action, 800, currentPrice, now, "1h-4h",
                           "EMA Ribbon: " \o (IF action = "BUY" THEN "Bullish alignment" ELSE "Bearish alignment"),
                           IfBuy(action, Mul(currentPrice, 970), Mul(currentPrice, 1030)),
                           IfBuy(action, Mul(currentPrice, 1050), Mul(currentPrice, 950)), 3)
            IN Emit(IF Gt(ema8, ema13) /\ Gt(ema13, ema21) /\ Gt(ema21, ema34) THEN "BUY"
                    ELSE IF Lt(ema8, ema13) /\ Lt(ema13, ema21) /\ Lt(ema21, ema34) THEN "SELL"
                    ELSE "HOLD")
    IN From(calculateEMA(prices, 8),
            calculateEMA(prices, 13),
            calculateEMA(prices, 21),
            calculateEMA(prices, 34))

priceAction(prices, high, low, symbol, now) ==
    LET currentPrice == Last(prices)
        prevPrice == At(prices, Len(prices) - 2)
        prevPrevPrice == At(prices, Len(prices) - 3)
        Emit(action) ==
            Signal(symbol, action, 700, currentPrice, now, "15m-1h",
                   "Price Action: " \o (IF action = "BUY" THEN "Higher highs" ELSE "Lower lows"),
                   prevPrevPrice,
                   IfBuy(action, Mul(currentPrice, 1030), Mul(currentPrice, 970)), 3)
    IN Emit(IF Gt(currentPrice, prevPrice) /\ Gt(prevPrice, prevPrevPrice) THEN "BUY"
            ELSE IF Lt(currentPrice, prevPrice) /\ Lt(prevPrice, prevPrevPrice) THEN "SELL"
            ELSE "HOLD")

supportResistance(prices, high, low, symbol, now) ==
    LET From(recentHigh, recentLow) ==
            LET currentPrice == Last(prices)
                resistance == Mul(recentHigh, 990)
                support == Mul(recentLow, 1010)
                Emit(action) ==
                    Signal(symbol, action, 750, currentPrice, now, "1h-4h",
                           "Support/Resistance: " \o (IF action = "BUY" THEN "Bounce from support"
                                                      ELSE "Rejection at resistance"),
                           IfBuy(action, recentLow, recentHigh),
                           IfBuy(action, resistance, support), 3)
            IN Emit(IF Le(currentPrice, support) THEN "BUY"
                    ELSE IF Ge(currentPrice, resistance) THEN "SELL"
                    ELSE "HOLD")
    IN From(MaxOf(SliceLast(high, 10)),
            MinOf(SliceLast(low, 10)))

volumeProfile(prices, volumes, symbol, now) ==
    LET From(avgVolume) ==
            LET currentPrice == Last(prices)
                currentVolume == Last(volumes)
                prevPrice == At(prices, Len(prices) - 2)
                heavy == Gt(currentVolume, Mul(avgVolume, 1500))
                Emit(action) ==
                    Signal(symbol, action, 700, currentPrice, now, "15m-1h",
                           "Volume Profile: " \o FixedStr(Div(currentVolume, avgVolume), 1) \o "x avg volume",
                           IfBuy(action, Mul(currentPrice, 990), Mul(currentPrice, 1010)),
                           IfBuy(action, Mul(currentPrice, 1030), Mul(currentPrice, 970)), 3)
            IN Emit(IF heavy /\ Gt(currentPrice, prevPrice) THEN "BUY"
                    ELSE IF heavy /\ Lt(currentPrice, prevPrice) THEN "SELL"
                    ELSE "HOLD")
    IN From(DivI(Sum(volumes), Len(volumes)))

orderFlow(prices, volumes, symbol, now) ==
    LET currentPrice == Last(prices)
        priceChange == Sub(currentPrice, At(prices, Len(prices) - 2))
        volumeChange == Sub(Last(volumes), OrElse(At(volumes, Len(volumes) - 2), Last(volumes)))
        Emit(action) ==
            Signal(symbol, action, 700, currentPrice, now, "5m-15m",
                   "Order Flow: " \o (IF Gt(priceChange, 0) THEN "Bullish" ELSE "Bearish") \o " with volume",
                   IfBuy(action, Mul(currentPrice, 995), Mul(currentPrice, 1005)),
                   IfBuy(action, Mul(currentPrice, 1015), Mul(currentPrice, 985)), 5)
    IN Emit(IF Gt(priceChange, 0) /\ Gt(volumeChange, 0) THEN "BUY"
            ELSE IF Lt(priceChange, 0) /\ Gt(volumeChange, 0) THEN "SELL"
            ELSE "HOLD")

marketStructure(prices, high, low, symbol, now) ==
    LET From(sma50, sma200) ==
            LET currentPrice == Last(prices)
                Emit(action) ==
                    Signal(symbol, action, 800, currentPrice, now, "1d-1w",
                           "Market Structure: " \o (IF action = "BUY" THEN "Bull market" ELSE "Bear market"),
                           sma200,
                           IfBuy(action, Mul(currentPrice, 1100), Mul(currentPrice, 900)), 2)
            IN Emit(IF Gt(currentPrice, sma50) /\ Gt(sma50, sma200) THEN "BUY"
                    ELSE IF Lt(currentPrice, sma50) /\ Lt(sma50, sma200) THEN "SELL"
                    ELSE "HOLD")
    IN From(calculateSMA(prices, 50),
            calculateSMA(prices, 200))

\* Capability stubs
elliottWave(prices, high, low, symbol, now) ==
    createHoldSignal(prices, symbol, now, "Elliott Wave analysis requires manual pattern recognition")
harmonicPatterns(prices, high, low, symbol, now) ==
    createHoldSignal(prices, symbol, now, "Harmonic patterns require manual pattern recognition")
gartleyPattern(prices, high, low, symbol, now) ==
    createHoldSignal(prices, symbol, now, "Gartley pattern requires manual identification")
butterflyPattern(prices, high, low, symbol, now) ==
    createHoldSignal(prices, symbol, now, "Butterfly pattern requires manual identification")
batPattern(prices, high, low, symbol, now) ==
    createHoldSignal(prices, symbol, now, "Bat pattern requires manual identification")
crabPattern(prices, high, low, symbol, now) ==
    createHoldSignal(prices, symbol, now, "Crab pattern requires manual identification")
cypherPattern(prices, high, low, symbol, now) ==
    createHoldSignal(prices, symbol, now, "Cypher pattern requires manual identification")
deepLearningAI(prices, high, low, symbol, now) ==
    createHoldSignal(prices, symbol, now, "Deep Learning AI requires trained model")
neuralNetwork(prices, high, low, symbol, now) ==
    createHoldSignal(prices, symbol, now, "Neural Network requires trained model")
geneticAlgorithm(prices, high, low, symbol, now) ==
    createHoldSignal(prices, symbol, now, "Genetic Algorithm requires optimization")
reinforcementLearning(prices, high, low, symbol, now) ==
    createHoldSignal(prices, symbol, now, "Reinforcement Learning requires trained agent")
sentimentAnalysis(prices, high, low, symbol, now) ==
    createHoldSignal(prices, symbol, now, "Sentiment Analysis requires external data")
socialVolume(prices, high, low, symbol, now) ==
    createHoldSignal(prices, symbol, now, "Social Volume requires social media data")
whaleTracking(prices, high, low, symbol, now) ==
    createHoldSignal(prices, symbol, now, "Whale Tracking requires on-chain data")
liquidityAnalysis(prices, high, low, symbol, now) ==
    createHoldSignal(prices, symbol, now, "Liquidity Analysis requires order book data")
marketCycle(prices, high, low, symbol, now) ==
    createHoldSignal(prices, symbol, now, "Market Cycle requires long-term data")
seasonality(prices, high, low, symbol, now) ==
    createHoldSignal(prices, symbol, now, "Seasonality requires historical seasonal data")
correlationMatrix(prices, high, low, symbol, now) ==
    createHoldSignal(prices, symbol, now, "Correlation Matrix requires multiple assets")
volatilitySmile(prices, high, low, symbol, now) ==
    createHoldSignal(prices, symbol, now, "Volatility Smile requires options data")
gammaExposure(prices, high, low, symbol, now) ==
    createHoldSignal(prices, symbol, now, "Gamma Exposure requires options flow data")
deltaNeutral(prices, high, low, symbol, now) ==
    createHoldSignal(prices, symbol, now, "Delta Neutral requires options positions")
optionsFlow(prices, high, low, symbol, now) ==
    createHoldSignal(prices, symbol, now, "Options Flow requires options market data")
fundingRate(prices, high, low, symbol, now) ==
    createHoldSignal(prices, symbol, now, "Funding Rate requires perpetual swap data")
openInterest(prices, high, low, symbol, now) ==
    createHoldSignal(prices, symbol, now, "Open Interest requires futures market data")
leverageRatio(prices, high, low, symbol, now) ==
    createHoldSignal(prices, symbol, now, "Leverage Ratio requires margin trading data")
fearGreed(prices, high, low, symbol, now) ==
    createHoldSignal(prices, symbol, now, "Fear & Greed requires sentiment indicators")
networkGrowth(prices, high, low, symbol, now) ==
    createHoldSignal(prices, symbol, now, "Network Growth requires blockchain data")
onChainAnalysis(prices, high, low, symbol, now) ==
    createHoldSignal(prices, symbol, now, "On-Chain Analysis requires blockchain metrics")
mvrvZScore(prices, high, low, symbol, now) ==
    createHoldSignal(prices, symbol, now, "MVRV Z-Score requires market value vs realized value data")
nvtRatio(prices, high, low, symbol, now) ==
    createHoldSignal(prices, symbol, now, "NVT Ratio requires network value to transaction ratio")
stockToFlow(prices, high, low, symbol, now) ==
    createHoldSignal(prices, symbol, now, "Stock-to-Flow requires supply issuance data")
realizedPrice(prices, high, low, symbol, now) ==
    createHoldSignal(prices, symbol, now, "Realized Price requires UTXO age data")
coinDaysDestroyed(prices, high, low, symbol, now) ==
    createHoldSignal(prices, symbol, now, "Coin Days Destroyed requires coin movement data")

---------------------------------------------------------------------------

getAllStrategyNames ==
    << "Multi-Timeframe RSI",
       "Trend Following MACD",
       "Mean Reversion BB",
       "Volume-Weighted MACD",
       "Ichimoku Cloud",
       "Supertrend Strategy",
       "Parabolic SAR",
       "ADX Momentum",
       "RSI Divergence",
       "MACD Histogram",
       "Bollinger Squeeze",
       "Stochastic Oscillator",
       "Williams %R",
       "CCI Strategy",
       "ATR Breakout",
       "VWAP Strategy",
       "Fibonacci Retracement",
       "Pivot Points",
       "Moving Average Cross",
       "EMA Ribbon",
       "Price Action",
       "Support Resistance",
       "Volume Profile",
       "Order Flow",
       "Market Structure",
       "Elliott Wave",
       "Harmonic Patterns",
       "Gartley Pattern",
       "Butterfly Pattern",
       "Bat Pattern",
       "Crab Pattern",
       "Cypher Pattern",
       "Deep Learning AI",
       "Neural Network",
       "Genetic Algorithm",
       "Reinforcement Learning",
       "Sentiment Analysis",
       "Social Volume",
       "Whale Tracking",
       "Liquidity Analysis",
       "Market Cycle",
       "Seasonality",
       "Correlation Matrix",
       "Volatility Smile",
       "Gamma Exposure",
       "Delta Neutral",
       "Options Flow",
       "Funding Rate",
       "Open Interest",
       "Leverage Ratio",
       "Fear & Greed",
       "Network Growth",
       "On-Chain Analysis",
       "MVRV Z-Score",
       "NVT Ratio",
       "Stock-to-Flow",
       "Realized Price",
       "Coin Days Destroyed" >>

\* signal !== null
NotNull(s) == "action" \in DOMAIN s
IsNotHoldUnfiltered(s) == TRUE
IsNotHold(s) == s.action # "HOLD"
IsBuy(s) == s.action = "BUY"
IsSell(s) == s.action = "SELL"

\* the array literal of getAllSignals, before its filter
fillVolumesRising(prices) == [i \in 1..Len(prices) |-> Num(i)]

\* Array(prices.length).fill(1)
fillVolumes(prices) == [i \in 1..Len(prices) |-> Num(1)]

strategyCalls(prices, high, low, symbol, now) ==
    LET volumes == fillVolumes(prices)
    IN << multiTimeframeRSI(prices, high, low, symbol, now),
          trendFollowingMACD(prices, symbol, now),
          meanReversionBB(prices, high, low, symbol, now),
          volumeWeightedMACD(prices, volumes, symbol, now),
          ichimokuCloud(prices, symbol, now),
          supertrendStrategy(prices, high, low, symbol, now),
          parabolicSAR(prices, high, low, symbol, now),
          adxMomentum(prices, high, low, symbol, now),
          rsiDivergence(prices, high, low, symbol, now),
          macdHistogram(prices, symbol, now),
          bollingerSqueeze(prices, high, low, symbol, now),
          stochasticOscillator(prices, high, low, symbol, now),
          williamsR(prices, high, low, symbol, now),
          cciStrategy(prices, high, low, symbol, now),
          atrBreakout(prices, high, low, symbol, now),
          vwapStrategy(prices, volumes, high, low, symbol, now),
          fibonacciRetracement(prices, high, low, symbol, now),
          pivotPoints(prices, high, low, symbol, now),
          movingAverageCross(prices, symbol, now),
          emaRibbon(prices, symbol, now),
          priceAction(prices, high, low, symbol, now),
          supportResistance(prices, high, low, symbol, now),
          volumeProfile(prices, volumes, symbol, now),
          orderFlow(prices, volumes, symbol, now),
          marketStructure(prices, high, low, symbol, now),
          elliottWave(prices, high, low, symbol, now),
          harmonicPatterns(prices, high, low, symbol, now),
          gartleyPattern(prices, high, low, symbol, now),
          butterflyPattern(prices, high, low, symbol, now),
          batPattern(prices, high, low, symbol, now),
          crabPattern(prices, high, low, symbol, now),
          cypherPattern(prices, high, low, symbol, now),
          deepLearningAI(prices, high, low, symbol, now),
          neuralNetwork(prices, high, low, symbol, now),
          geneticAlgorithm(prices, high, low, symbol, now),
          reinforcementLearning(prices, high, low, symbol, now),
          sentimentAnalysis(prices, high, low, symbol, now),
          socialVolume(prices, high, low, symbol, now),
          whaleTracking(prices, high, low, symbol, now),
          liquidityAnalysis(prices, high, low, symbol, now),
          marketCycle(prices, high, low, symbol, now),
          seasonality(prices, high, low, symbol, now),
          correlationMatrix(prices, high, low, symbol, now),
          volatilitySmile(prices, high, low, symbol, now),
          gammaExposure(prices, high, low, symbol, now),
          deltaNeutral(prices, high, low, symbol, now),
          optionsFlow(prices, high, low, symbol, now),
          fundingRate(prices, high, low, symbol, now),
          openInterest(prices, high, low, symbol, now),
          leverageRatio(prices, high, low, symbol, now),
          fearGreed(prices, high, low, symbol, now),
          networkGrowth(prices, high, low, symbol, now),
          onChainAnalysis(prices, high, low, symbol, now),
          mvrvZScore(prices, high, low, symbol, now),
          nvtRatio(prices, high, low, symbol, now),
          stockToFlow(prices, high, low, symbol, now),
          realizedPrice(prices, high, low, symbol, now),
          coinDaysDestroyed(prices, high, low, symbol, now) >>

getAllSignalsDropHold(prices, high, low, symbol, now) ==
    SelectSeq(strategyCalls(prices, high, low, symbol, now), IsNotHold)

getAllSignals(prices, high, low, symbol, now) ==
    SelectSeq(strategyCalls(prices, high, low, symbol, now), NotNull)

ConfidenceOf(signals) == [i \in 1..Len(signals) |-> signals[i].confidence]

\* the guard literal of getConsensusSignal
noConsensusWrongLeverage(prices, symbol, now) ==
    [symbol |-> symbol, action |-> "HOLD", confidence |-> 0, price |-> Last(prices),
     timestamp |-> now, duration |-> "N/A",
     reason |-> "No clear consensus across strategies",
     stopLoss |-> 0, takeProfit |-> 0, leverage |-> 3]

noConsensus(prices, symbol, now) ==
    [symbol |-> symbol, action |-> "HOLD", confidence |-> 0, price |-> Last(prices),
     timestamp |-> now, duration |-> "N/A",
     reason |-> "No clear consensus across strategies",
     stopLoss |-> 0, takeProfit |-> 0, leverage |-> 1]

\* buySignals.length > sellSignals.length ? 'BUY' : 'SELL'
consensusActionTieBuys(buyCount, sellCount) == IF buyCount >= sellCount THEN "BUY" ELSE "SELL"

consensusAction(buyCount, sellCount) == IF buyCount > sellCount THEN "BUY" ELSE "SELL"

\* avgConfidence * (consensusCount / validSignals.length)
consensusConfidenceWinnersOnly(validSignals, action, consensusCount) ==
    LET winners == SelectSeq(validSignals, LAMBDA s : s.action = action)
    IN Mul(DivI(Sum(ConfidenceOf(winners)), Len(winners)),
           Div(Num(consensusCount), Num(Len(validSignals))))

consensusConfidence(validSignals, action, consensusCount) ==
    LET totalConfidence == Sum(ConfidenceOf(validSignals))
        avgConfidence == DivI(totalConfidence, Len(validSignals))
    IN Mul(avgConfidence, Div(Num(consensusCount), Num(Len(validSignals))))

\* the stopLoss and takeProfit of a consensus
consensusLevelsSwapped(action, price) ==
    [stopLoss |-> IfBuy(action, Mul(price, 1020), Mul(price, 980)),
     takeProfit |-> IfBuy(action, Mul(price, 970), Mul(price, 1030))]

consensusLevels(action, price) ==
    [stopLoss |-> IfBuy(action, Mul(price, 980), Mul(price, 1020)),
     takeProfit |-> IfBuy(action, Mul(price, 1030), Mul(price, 970))]

getConsensusSignal(prices, high, low, symbol, now) ==
    LET From(validSignals) ==
            IF Len(validSignals) = 0
            THEN noConsensus(prices, symbol, now)
            ELSE LET Count(buyCount, sellCount) ==
                         LET consensusCount == IF buyCount >= sellCount THEN buyCount ELSE sellCount
                             Emit(action) ==
                                 [symbol |-> symbol, action |-> action,
                                  confidence |-> consensusConfidence(validSignals, action, consensusCount),
                                  price |-> Last(prices), timestamp |-> now, duration |-> "15m-4h",
                                  reason |-> "Consensus: " \o ToString(consensusCount) \o "/"
                                                 \o ToString(Len(validSignals)) \o " strategies agree",
                                  stopLoss |-> consensusLevels(action, Last(prices)).stopLoss,
                                  takeProfit |-> consensusLevels(action, Last(prices)).takeProfit,
                                  leverage |-> 3]
                         IN Emit(consensusAction(buyCount, sellCount))
                 IN Count(Len(SelectSeq(validSignals, IsBuy)), Len(SelectSeq(validSignals, IsSell)))
    IN From(SelectSeq(getAllSignals(prices, high, low, symbol, now), IsNotHold))

---------------------------------------------------------------------------
(* Inputs: the candles a caller passes.  A series is a price level plus a   *)
(* linear drift plus a repeating pattern, with a constant upper and lower  *)
(* wick on every bar, so that low <= close <= high and the three arrays    *)
(* are index-aligned, as the klines of the pages are.                      *)

MaxLen == 60
MaxWick == 1
MaxClock == 1
Base == 100

Symbols == {"BTCUSDT"}
Slopes == {-1, 0, 1}
Patterns == { <<0>>, <<0, 3>>, <<0, -3>>, <<0, 4, 0, -4, 0>>, <<3, -3, 1, -1, 0>>,
              <<2, 3, -6, 1, 0>>, <<0, 0, 0, 0, 0, 0, 0, 5>>, <<0, 0, 0, 0, 0, 0, 0, -5>> }
\* the lengths around the minimum bar counts of the indicators and strategies
Lengths == {n \in {1, 2, 3, 5, 9, 10, 14, 15, 19, 20, 21, 23, 25, 26, 27, 30, 34, 52} : n <= MaxLen}
               \cup {MaxLen}

Closes(pat, slope, n) ==
    [i \in 1..n |-> Num(Base + slope * (i - 1) + pat[((i - 1) % Len(pat)) + 1])]
Wicked(closes, w) == [i \in 1..Len(closes) |-> closes[i] + Num(w)]

VARIABLES prices, high, low, symbol, now, allSignals, consensus

\* the state of the coins page (src/unnamed/part_000): the SWR data, the six
\* useState cells the page's handlers write, and the fetches in flight
VARIABLES symbols, activeTab, currentPage, searchQuery, coinSignals, selectedCoin,
          loadingCoin, signalRequests, detailRequests
coinsVars == <<symbols, activeTab, currentPage, searchQuery, coinSignals, selectedCoin,
               loadingCoin, signalRequests, detailRequests>>

\* one request of /api/binance-symbols: what the upstream fetch yields and what
\* the handler returns
VARIABLES upstream, response
routeVars == <<upstream, response>>

vars == <<prices, high, low, symbol, now, allSignals, consensus, coinsVars, routeVars>>

\* the coin symbols the page lists, as character sequences
CoinSymbols == << <<"A", "B">>, <<"B", "C">> >>
CoinSet == {CoinSymbols[i] : i \in 1..Len(CoinSymbols)}

\* the page as constructed (lines 57-64, null is the empty sequence), with no
\* SWR data yet and no fetch started
CoinsPageMounted ==
    /\ symbols = <<>>
    /\ activeTab = "ALL"
    /\ currentPage = 1
    /\ searchQuery = <<>>
    /\ coinSignals = <<>>
    /\ selectedCoin = <<>>
    /\ loadingCoin = <<>>
    /\ signalRequests = [s \in CoinSet |-> 0]
    /\ detailRequests = <<>>

\* no request of the route is being served
RouteIdle ==
    /\ upstream = [kind |-> "none"]
    /\ response = <<>>

Init ==
    /\ \E pat \in Patterns, slope \in Slopes, n \in Lengths, w \in 0..MaxWick :
          /\ prices = Closes(pat, slope, n)
          /\ high = Wicked(prices, w)
          /\ low = Wicked(prices, -w)
    /\ symbol \in Symbols
    /\ now = 0
    /\ allSignals = <<>>
    /\ consensus = <<>>
    /\ CoinsPageMounted
    /\ RouteIdle

\* the analysis of one load of candles (loadCoinDetails): getAllSignals, then
\* getConsensusSignal, each reading the clock with `new Date()`
GetAllSignals ==
    /\ allSignals = <<>>
    /\ allSignals' = getAllSignals(prices, high, low, symbol, now)
    /\ UNCHANGED <<prices, high, low, symbol, now, consensus, coinsVars, routeVars>>

\* time passes between the two calls
Tick ==
    /\ allSignals # <<>>
    /\ consensus = <<>>
    /\ now < MaxClock
    /\ now' = now + 1
    /\ UNCHANGED <<prices, high, low, symbol, allSignals, consensus, coinsVars, routeVars>>

GetConsensusSignal ==
    /\ allSignals # <<>>
    /\ consensus = <<>>
    /\ consensus' = <<getConsensusSignal(prices, high, low, symbol, now)>>
    /\ UNCHANGED <<prices, high, low, symbol, now, allSignals, coinsVars, routeVars>>

Next == GetAllSignals \/ Tick \/ GetConsensusSignal

Spec == Init /\ [][Next]_vars

\* Any numeric input.  The exported functions accept arrays of any lengths:
\* an empty series, a series shorter than every period, high and low arrays
\* shorter than prices (half of them, or none), bars with high = low, and bars
\* whose close lies outside [low, high].
AnyLengths == {n \in {0, 1, 5, 14, 20, 26, 30} : n <= MaxLen} \cup {MaxLen}
\* <<wick, bars missing from high, bars missing from low>>, 0 none, 1 half, 2 all
Shapes == { <<1, 0, 0>>, <<0, 0, 0>>, <<-1, 0, 0>>, <<1, 1, 0>>, <<1, 0, 2>>, <<1, 2, 2>> }
Cut(arr, missing) ==
    IF missing = 0 THEN arr
    ELSE IF missing = 1 THEN SliceFirst(arr, Len(arr) \div 2)
    ELSE <<>>

InitAnyInput ==
    /\ \E pat \in Patterns, slope \in Slopes, n \in AnyLengths, shape \in Shapes :
          /\ prices = Closes(pat, slope, n)
          /\ high = Cut(Wicked(prices, shape[1]), shape[2])
          /\ low = Cut(Wicked(prices, -shape[1]), shape[3])
    /\ symbol \in Symbols
    /\ now = 0
    /\ allSignals = <<>>
    /\ consensus = <<>>
    /\ CoinsPageMounted
    /\ RouteIdle

SpecAnyInput == InitAnyInput /\ [][Next]_vars

---------------------------------------------------------------------------
(* The coins page (src/unnamed/part_000).  A step is one event (a click, an *)
(* edit, the arrival of the SWR data, the settling of a fetch) together     *)
(* with the renders and effects it causes, up to the next quiet state:      *)
(* React flushes the effects of a render before it handles the next event.  *)

\* the page shows 20 coins (line 65); the model scales the page down, the
\* page arithmetic being the same for every positive page size
coinsPerPage == 1
\* the signal requests in flight for one symbol that the model follows
MaxInFlight == 2
\* the loadCoinDetails requests the model follows between two quiet moments
MaxClicks == 2

Tabs == {"ALL", "STRONG_BUY", "BUY", "SELL", "STRONG_SELL"}
\* what the analysis of fetched candles yields, {action, confidence} of the
\* consensus (lines 89-93, 249-250); HOLD with confidence 0 is also what the
\* catch of computeSignalForSymbol yields (line 96)
SignalResults ==
    { [action |-> "HOLD", confidence |-> 0],
      [action |-> "BUY", confidence |-> (6 * SCALE) \div 10],
      [action |-> "SELL", confidence |-> (9 * SCALE) \div 10] }
\* what the user types in the search box
Queries == { <<>>, <<" ", "a">>, <<"b">> }

classifySignal(confidence, action) ==
    IF action = "HOLD" THEN "HOLD"
    ELSE IF action = "BUY"
         THEN IF confidence >= (8 * SCALE) \div 10 THEN "STRONG_BUY" ELSE "BUY"
         ELSE IF confidence >= (8 * SCALE) \div 10 THEN "STRONG_SELL" ELSE "SELL"

RECURSIVE trimStart(_)
trimStart(q) == IF q # <<>> /\ q[1] = " " THEN trimStart(Tail(q)) ELSE q
RECURSIVE trimEnd(_)
trimEnd(q) == IF q # <<>> /\ q[Len(q)] = " " THEN trimEnd(SubSeq(q, 1, Len(q) - 1)) ELSE q
trim(q) == trimEnd(trimStart(q))

toUpperCase(q) ==
    [i \in 1..Len(q) |-> CASE q[i] = "a" -> "A" [] q[i] = "b" -> "B" [] q[i] = "c" -> "C"
                           [] OTHER -> q[i]]

includes(s, q) == \E i \in 0..(Len(s) - Len(q)) : SubSeq(s, i + 1, i + Len(q)) = q

\* coinSignals[symbol] || { action: 'HOLD', confidence: 0 }
signalOrHold(signals, s) ==
    IF s \in DOMAIN signals THEN signals[s] ELSE [action |-> "HOLD", confidence |-> 0]

filteredCoins(syms, tab, signals, query) ==
    LET InTab(s) ==
            \/ tab = "ALL"
            \/ classifySignal(signalOrHold(signals, s).confidence,
                              signalOrHold(signals, s).action) = tab
        Matches(s) == includes(s, toUpperCase(trim(query)))
    IN IF trim(query) # <<>> THEN SelectSeq(SelectSeq(syms, InTab), Matches)
       ELSE SelectSeq(syms, InTab)

\* Math.ceil(filteredCoins.length / coinsPerPage)
totalPages(filtered) == (Len(filtered) + coinsPerPage - 1) \div coinsPerPage

paginatedCoins(filtered, page) ==
    SubSeq(filtered, (page - 1) * coinsPerPage + 1, Min2(page * coinsPerPage, Len(filtered)))

\* the coins on the page shown for a state of the page
Shown(syms, tab, page, query, signals) ==
    paginatedCoins(filteredCoins(syms, tab, signals, query), page)

\* the signal effect (lines 174-183) after one render: one more request for
\* every coin shown that has no entry in coinSignals.  It runs after every
\* render, paginatedCoins being a new array each time (line 162).
signalEffect(requests, syms, shown, signals) ==
    IF syms = <<>> \/ shown = <<>> THEN requests
    ELSE [s \in DOMAIN requests |->
             IF (\E i \in 1..Len(shown) : shown[i] = s) /\ s \notin DOMAIN signals
             THEN requests[s] + 1 ELSE requests[s]]

Rendered(requests, syms, tab, page, query, signals) ==
    signalEffect(requests, syms, Shown(syms, tab, page, query, signals), signals)

\* prev => ({ ...prev, [symbol]: signal })
setCoinSignals(prev, s, signal) ==
    [x \in DOMAIN prev \cup {s} |-> IF x = s THEN signal ELSE prev[x]]

Capped(requests) == \A s \in DOMAIN requests : requests[s] <= MaxInFlight

\* detailRequests lists the loadCoinDetails calls since the page was last
\* quiet, in the order of the clicks: pending, or settled with an analysis;
\* a call whose fetch failed leaves the list
IsPending(i) == detailRequests[i].state = "pending"
Without(requests, i) == SubSeq(requests, 1, i - 1) \o SubSeq(requests, i + 1, Len(requests))

\* useSWR delivers the symbol list (line 69); the first render with data
LoadSymbols ==
    /\ symbols = <<>>
    /\ symbols' = CoinSymbols
    /\ signalRequests' = Rendered(signalRequests, CoinSymbols, activeTab, currentPage,
                                  searchQuery, coinSignals)
    /\ UNCHANGED <<activeTab, currentPage, searchQuery, coinSignals, selectedCoin,
                   loadingCoin, detailRequests>>
    /\ UNCHANGED <<prices, high, low, symbol, now, allSignals, consensus, routeVars>>

\* fetchRealTimePrices stores new prices every second (lines 139, 170): a render
FetchRealTimePrices ==
    /\ symbols # <<>>
    /\ signalRequests' = Rendered(signalRequests, symbols, activeTab, currentPage,
                                  searchQuery, coinSignals)
    /\ Capped(signalRequests')
    /\ UNCHANGED <<symbols, activeTab, currentPage, searchQuery, coinSignals, selectedCoin,
                   loadingCoin, detailRequests>>
    /\ UNCHANGED <<prices, high, low, symbol, now, allSignals, consensus, routeVars>>

\* the search box (line 306) and clearSearch (line 265): a render with the old
\* page, then the page-reset effect (lines 185-187) and, if it changed the
\* page, a second render
SearchEdit ==
    /\ \E q \in Queries :
          /\ q # searchQuery
          /\ searchQuery' = q
          /\ currentPage' = 1
          /\ signalRequests' =
                 IF currentPage = 1
                 THEN Rendered(signalRequests, symbols, activeTab, 1, q, coinSignals)
                 ELSE Rendered(Rendered(signalRequests, symbols, activeTab, currentPage, q,
                                        coinSignals),
                               symbols, activeTab, 1, q, coinSignals)
    /\ Capped(signalRequests')
    /\ UNCHANGED <<symbols, activeTab, coinSignals, selectedCoin, loadingCoin, detailRequests>>
    /\ UNCHANGED <<prices, high, low, symbol, now, allSignals, consensus, routeVars>>

\* a tab button (lines 366-369)
TabClick ==
    /\ \E tab \in Tabs :
          /\ tab # activeTab \/ currentPage # 1 \/ selectedCoin # <<>>
          /\ activeTab' = tab
          /\ signalRequests' = Rendered(signalRequests, symbols, tab, 1, searchQuery,
                                        coinSignals)
    /\ currentPage' = 1
    /\ selectedCoin' = <<>>
    /\ Capped(signalRequests')
    /\ UNCHANGED <<symbols, searchQuery, coinSignals, loadingCoin, detailRequests>>
    /\ UNCHANGED <<prices, high, low, symbol, now, allSignals, consensus, routeVars>>

\* a page button (lines 476-486), one per page when there are several
PageClick ==
    /\ \E i \in 1..totalPages(filteredCoins(symbols, activeTab, coinSignals, searchQuery)) :
          /\ totalPages(filteredCoins(symbols, activeTab, coinSignals, searchQuery)) > 1
          /\ i # currentPage
          /\ currentPage' = i
          /\ signalRequests' = Rendered(signalRequests, symbols, activeTab, i, searchQuery,
                                        coinSignals)
    /\ Capped(signalRequests')
    /\ UNCHANGED <<symbols, activeTab, searchQuery, coinSignals, selectedCoin, loadingCoin,
                   detailRequests>>
    /\ UNCHANGED <<prices, high, low, symbol, now, allSignals, consensus, routeVars>>

\* a request of computeSignalForSymbol settles (lines 77-98) and its result
\* is stored (lines 178-180)
SignalResolved ==
    /\ \E s \in CoinSet, signal \in SignalResults :
          /\ signalRequests[s] > 0
          /\ coinSignals' = setCoinSignals(coinSignals, s, signal)
          /\ signalRequests' = Rendered([signalRequests EXCEPT ![s] = @ - 1], symbols,
                                        activeTab, currentPage, searchQuery, coinSignals')
    /\ Capped(signalRequests')
    /\ UNCHANGED <<symbols, activeTab, currentPage, searchQuery, selectedCoin, loadingCoin,
                   detailRequests>>
    /\ UNCHANGED <<prices, high, low, symbol, now, allSignals, consensus, routeVars>>

\* a coin button that is not disabled (lines 405-416): loadCoinDetails up to
\* its fetch (lines 189-194)
LoadCoinDetails ==
    /\ \E i \in 1..Len(Shown(symbols, activeTab, currentPage, searchQuery, coinSignals)) :
          LET coin == Shown(symbols, activeTab, currentPage, searchQuery, coinSignals)[i]
          IN /\ loadingCoin # <<coin>>
             /\ loadingCoin' = <<coin>>
             /\ IF \E j \in 1..Len(detailRequests) : IsPending(j)
                THEN /\ Len(detailRequests) < MaxClicks
                     /\ detailRequests' =
                            Append(detailRequests, [symbol |-> coin, state |-> "pending"])
                ELSE detailRequests' = << [symbol |-> coin, state |-> "pending"] >>
    /\ signalRequests' = Rendered(signalRequests, symbols, activeTab, currentPage,
                                  searchQuery, coinSignals)
    /\ Capped(signalRequests')
    /\ UNCHANGED <<symbols, activeTab, currentPage, searchQuery, coinSignals, selectedCoin>>
    /\ UNCHANGED <<prices, high, low, symbol, now, allSignals, consensus, routeVars>>

\* the fetch of a loadCoinDetails settles with candles: the analysis is shown
\* (selectedCoin, of which the model keeps the symbol and the consensus) and
\* its consensus is stored (lines 195-252), then the finally block (line 260)
DetailsResolved ==
    /\ \E i \in 1..Len(detailRequests), signal \in SignalResults :
          /\ IsPending(i)
          /\ detailRequests' = [detailRequests EXCEPT ![i].state = "settled"]
          /\ selectedCoin' = << [symbol |-> detailRequests[i].symbol, consensus |-> signal] >>
          /\ coinSignals' = setCoinSignals(coinSignals, detailRequests[i].symbol, signal)
    /\ loadingCoin' = <<>>
    /\ signalRequests' = Rendered(signalRequests, symbols, activeTab, currentPage,
                                  searchQuery, coinSignals')
    /\ Capped(signalRequests')
    /\ UNCHANGED <<symbols, activeTab, currentPage, searchQuery>>
    /\ UNCHANGED <<prices, high, low, symbol, now, allSignals, consensus, routeVars>>

\* the fetch of a loadCoinDetails fails, or its body is not a list of candles:
\* the catch and the finally block (lines 257-261); a render only if
\* loadingCoin was not null already
DetailsFailed ==
    /\ \E i \in 1..Len(detailRequests) :
          /\ IsPending(i)
          /\ detailRequests' = Without(detailRequests, i)
    /\ loadingCoin' = <<>>
    /\ signalRequests' =
           IF loadingCoin = <<>> THEN signalRequests
           ELSE Rendered(signalRequests, symbols, activeTab, currentPage, searchQuery,
                         coinSignals)
    /\ Capped(signalRequests')
    /\ UNCHANGED <<symbols, activeTab, currentPage, searchQuery, coinSignals, selectedCoin>>
    /\ UNCHANGED <<prices, high, low, symbol, now, allSignals, consensus, routeVars>>

InitCoinsPage ==
    /\ prices = <<>>
    /\ high = <<>>
    /\ low = <<>>
    /\ symbol \in Symbols
    /\ now = 0
    /\ allSignals = <<>>
    /\ consensus = <<>>
    /\ CoinsPageMounted
    /\ RouteIdle

NextCoinsPage ==
    \/ LoadSymbols
    \/ FetchRealTimePrices
    \/ SearchEdit
    \/ TabClick
    \/ PageClick
    \/ SignalResolved
    \/ LoadCoinDetails
    \/ DetailsResolved
    \/ DetailsFailed

SpecCoinsPage == InitCoinsPage /\ [][NextCoinsPage]_vars

---------------------------------------------------------------------------
(* The route /api/binance-symbols (src/app/api/binance-symbols/route.ts and *)
(* src/unnamed/part_002, the same handler with another error message).      *)
(* A symbol name is a sequence of characters; null is [null |-> TRUE] and a *)
(* field a JSON object lacks is absent from the record.                     *)

\* .slice(0, 850)
MaxListed == 850
\* the entries of the upstream lists that are enumerated in full
MaxEntries == 3

Variants == {"route.ts", "part_002"}

Entries ==
    { [symbol |-> <<"B">>, status |-> "TRADING", quoteAsset |-> "USDT"],
      [symbol |-> <<"A">>, status |-> "TRADING", quoteAsset |-> "USDT"],
      [symbol |-> <<"A", "B">>, status |-> "TRADING", quoteAsset |-> "USDT"],
      [symbol |-> <<"A", "_">>, status |-> "TRADING", quoteAsset |-> "USDT"],
      [symbol |-> <<"C">>, status |-> "BREAK", quoteAsset |-> "USDT"],
      [symbol |-> <<"D">>, status |-> "TRADING", quoteAsset |-> "BTC"],
      [status |-> "BREAK", quoteAsset |-> "USDT"],
      [status |-> "TRADING", quoteAsset |-> "USDT"],
      [null |-> TRUE] }

\* a long exchange list: n entries that repeat a cycle of entries
Cycle(cycle, n) == [i \in 1..n |-> cycle[(i % Len(cycle)) + 1]]
LongLists ==
    { Cycle(<< [symbol |-> <<"B">>, status |-> "TRADING", quoteAsset |-> "USDT"],
               [symbol |-> <<"A", "B">>, status |-> "TRADING", quoteAsset |-> "USDT"],
               [symbol |-> <<"A">>, status |-> "TRADING", quoteAsset |-> "USDT"] >>,
            MaxListed + 1),
      Cycle(<< [symbol |-> <<"B">>, status |-> "TRADING", quoteAsset |-> "USDT"],
               [symbol |-> <<"C">>, status |-> "BREAK", quoteAsset |-> "USDT"],
               [symbol |-> <<"A">>, status |-> "TRADING", quoteAsset |-> "USDT"],
               [symbol |-> <<"A", "_">>, status |-> "TRADING", quoteAsset |-> "USDT"] >>,
            MaxListed + 1) }

ShortLists == UNION {[1..n -> Entries] : n \in 0..MaxEntries}

\* what the fetch of exchangeInfo yields: a rejection, or a response with a
\* status and a body that parses as JSON or does not
Upstreams ==
    {[kind |-> "rejected"]}
    \cup {[kind |-> "response", status |-> st, body |-> [json |-> FALSE]] :
              st \in {200, 418, 429, 500}}
    \cup {[kind |-> "response", status |-> st,
           body |-> [json |-> TRUE, data |-> [code |-> -1003, msg |-> "Too many requests"]]] :
              st \in {200, 418, 429, 500}}
    \cup {[kind |-> "response", status |-> 200,
           body |-> [json |-> TRUE, data |-> [symbols |-> list]]] :
              list \in ShortLists \cup LongLists}

\* the UTF-16 code units of the characters of the names
Code(ch) ==
    CASE ch = "A" -> 65 [] ch = "B" -> 66 [] ch = "C" -> 67 [] ch = "D" -> 68 [] ch = "_" -> 95

\* a < b as Array.prototype.sort() without a comparator orders strings
RECURSIVE Precedes(_, _)
Precedes(a, b) ==
    IF b = <<>> THEN FALSE
    ELSE IF a = <<>> THEN TRUE
    ELSE IF Code(a[1]) # Code(b[1]) THEN Code(a[1]) < Code(b[1])
    ELSE Precedes(Tail(a), Tail(b))

\* .sort(): the element at position r is the name x with fewer than r names
\* before it and at least r names not after it (equal names are the same
\* string, so their order among themselves does not show)
sort(list) ==
    [r \in 1..Len(list) |->
        CHOOSE x \in {list[i] : i \in 1..Len(list)} :
            /\ Cardinality({j \in 1..Len(list) : Precedes(list[j], x)}) < r
            /\ Cardinality({j \in 1..Len(list) : ~Precedes(x, list[j])}) >= r]

\* s.status and s.quoteAsset, undefined when the object lacks the field
Field(s, name) == IF name \in DOMAIN s THEN s[name] ELSE "undefined"

\* the filter callback with the quoteAsset test left out
isListedAnyQuote(s) ==
    /\ Field(s, "status") = "TRADING"
    /\ ~includes(s.symbol, <<"_">>)

\* the filter callback (route.ts lines 29-33)
isListed(s) ==
    /\ Field(s, "status") = "TRADING"
    /\ Field(s, "quoteAsset") = "USDT"
    /\ ~includes(s.symbol, <<"_">>)

\* the filter callback throws a TypeError: s is null, or s passes the two
\* tests of && and has no symbol to call includes on
filterThrows(s) ==
    \/ "null" \in DOMAIN s
    \/ /\ Field(s, "status") = "TRADING"
       /\ Field(s, "quoteAsset") = "USDT"
       /\ "symbol" \notin DOMAIN s

symbolOf(s) == s.symbol

Map(list, Op(_)) == [i \in 1..Len(list) |-> Op(list[i])]

errorMessage(variant) ==
    IF variant = "route.ts" THEN "Failed to load trading pairs" ELSE "Failed to load symbols"

\* GET: everything from the fetch to the list is inside the try, and every
\* throw ends in the catch
GET(variant, up) ==
    IF \/ up.kind = "rejected"
       \/ up.status \notin 200..299
       \/ ~up.body.json
       \/ "symbols" \notin DOMAIN up.body.data
       \/ \E i \in 1..Len(up.body.data.symbols) : filterThrows(up.body.data.symbols[i])
    THEN [status |-> 500, body |-> [error |-> errorMessage(variant)]]
    ELSE [status |-> 200,
          body |-> SliceFirst(sort(Map(SelectSeq(up.body.data.symbols, isListed), symbolOf)),
                              MaxListed)]

HandleRequest ==
    /\ response = <<>>
    /\ \E variant \in Variants : response' = <<GET(variant, upstream)>>
    /\ UNCHANGED upstream
    /\ UNCHANGED <<prices, high, low, symbol, now, allSignals, consensus, coinsVars>>

InitRoute ==
    /\ prices = <<>>
    /\ high = <<>>
    /\ low = <<>>
    /\ symbol \in Symbols
    /\ now = 0
    /\ allSignals = <<>>
    /\ consensus = <<>>
    /\ CoinsPageMounted
    /\ upstream \in Upstreams
    /\ response = <<>>

NextRoute == HandleRequest

SpecRoute == InitRoute /\ [][NextRoute]_vars

---------------------------------------------------------------------------
(* Claims *)

\* the strategy method a catalogue name designates (the method of the same name)
StrategyNamed(name, volumes) ==
    CASE name = "Multi-Timeframe RSI" ->
             multiTimeframeRSI(prices, high, low, symbol, allSignals[1].timestamp)
      [] name = "Trend Following MACD" ->
             trendFollowingMACD(prices, symbol, allSignals[1].timestamp)
      [] name = "Mean Reversion BB" ->
             meanReversionBB(prices, high, low, symbol, allSignals[1].timestamp)
      [] name = "Volume-Weighted MACD" ->
             volumeWeightedMACD(prices, volumes, symbol, allSignals[1].timestamp)
      [] name = "Ichimoku Cloud" ->
             ichimokuCloud(prices, symbol, allSignals[1].timestamp)
      [] name = "Supertrend Strategy" ->
             supertrendStrategy(prices, high, low, symbol, allSignals[1].timestamp)
      [] name = "Parabolic SAR" ->
             parabolicSAR(prices, high, low, symbol, allSignals[1].timestamp)
      [] name = "ADX Momentum" ->
             adxMomentum(prices, high, low, symbol, allSignals[1].timestamp)
      [] name = "RSI Divergence" ->
             rsiDivergence(prices, high, low, symbol, allSignals[1].timestamp)
      [] name = "MACD Histogram" ->
             macdHistogram(prices, symbol, allSignals[1].timestamp)
      [] name = "Bollinger Squeeze" ->
             bollingerSqueeze(prices, high, low, symbol, allSignals[1].timestamp)
      [] name = "Stochastic Oscillator" ->
             stochasticOscillator(prices, high, low, symbol, allSignals[1].timestamp)
      [] name = "Williams %R" ->
             williamsR(prices, high, low, symbol, allSignals[1].timestamp)
      [] name = "CCI Strategy" ->
             cciStrategy(prices, high, low, symbol, allSignals[1].timestamp)
      [] name = "ATR Breakout" ->
             atrBreakout(prices, high, low, symbol, allSignals[1].timestamp)
      [] name = "VWAP Strategy" ->
             vwapStrategy(prices, volumes, high, low, symbol, allSignals[1].timestamp)
      [] name = "Fibonacci Retracement" ->
             fibonacciRetracement(prices, high, low, symbol, allSignals[1].timestamp)
      [] name = "Pivot Points" ->
             pivotPoints(prices, high, low, symbol, allSignals[1].timestamp)
      [] name = "Moving Average Cross" ->
             movingAverageCross(prices, symbol, allSignals[1].timestamp)
      [] name = "EMA Ribbon" ->
             emaRibbon(prices, symbol, allSignals[1].timestamp)
      [] name = "Price Action" ->
             priceAction(prices, high, low, symbol, allSignals[1].timestamp)
      [] name = "Support Resistance" ->
             supportResistance(prices, high, low, symbol, allSignals[1].timestamp)
      [] name = "Volume Profile" ->
             volumeProfile(prices, volumes, symbol, allSignals[1].timestamp)
      [] name = "Order Flow" ->
             orderFlow(prices, volumes, symbol, allSignals[1].timestamp)
      [] name = "Market Structure" ->
             marketStructure(prices, high, low, symbol, allSignals[1].timestamp)
      [] name = "Elliott Wave" ->
             elliottWave(prices, high, low, symbol, allSignals[1].timestamp)
      [] name = "Harmonic Patterns" ->
             harmonicPatterns(prices, high, low, symbol, allSignals[1].timestamp)
      [] name = "Gartley Pattern" ->
             gartleyPattern(prices, high, low, symbol, allSignals[1].timestamp)
      [] name = "Butterfly Pattern" ->
             butterflyPattern(prices, high, low, symbol, allSignals[1].timestamp)
      [] name = "Bat Pattern" ->
             batPattern(prices, high, low, symbol, allSignals[1].timestamp)
      [] name = "Crab Pattern" ->
             crabPattern(prices, high, low, symbol, allSignals[1].timestamp)
      [] name = "Cypher Pattern" ->
             cypherPattern(prices, high, low, symbol, allSignals[1].timestamp)
      [] name = "Deep Learning AI" ->
             deepLearningAI(prices, high, low, symbol, allSignals[1].timestamp)
      [] name = "Neural Network" ->
             neuralNetwork(prices, high, low, symbol, allSignals[1].timestamp)
      [] name = "Genetic Algorithm" ->
             geneticAlgorithm(prices, high, low, symbol, allSignals[1].timestamp)
      [] name = "Reinforcement Learning" ->
             reinforcementLearning(prices, high, low, symbol, allSignals[1].timestamp)
      [] name = "Sentiment Analysis" ->
             sentimentAnalysis(prices, high, low, symbol, allSignals[1].timestamp)
      [] name = "Social Volume" ->
             socialVolume(prices, high, low, symbol, allSignals[1].timestamp)
      [] name = "Whale Tracking" ->
             whaleTracking(prices, high, low, symbol, allSignals[1].timestamp)
      [] name = "Liquidity Analysis" ->
             liquidityAnalysis(prices, high, low, symbol, allSignals[1].timestamp)
      [] name = "Market Cycle" ->
             marketCycle(prices, high, low, symbol, allSignals[1].timestamp)
      [] name = "Seasonality" ->
             seasonality(prices, high, low, symbol, allSignals[1].timestamp)
      [] name = "Correlation Matrix" ->
             correlationMatrix(prices, high, low, symbol, allSignals[1].timestamp)
      [] name = "Volatility Smile" ->
             volatilitySmile(prices, high, low, symbol, allSignals[1].timestamp)
      [] name = "Gamma Exposure" ->
             gammaExposure(prices, high, low, symbol, allSignals[1].timestamp)
      [] name = "Delta Neutral" ->
             deltaNeutral(prices, high, low, symbol, allSignals[1].timestamp)
      [] name = "Options Flow" ->
             optionsFlow(prices, high, low, symbol, allSignals[1].timestamp)
      [] name = "Funding Rate" ->
             fundingRate(prices, high, low, symbol, allSignals[1].timestamp)
      [] name = "Open Interest" ->
             openInterest(prices, high, low, symbol, allSignals[1].timestamp)
      [] name = "Leverage Ratio" ->
             leverageRatio(prices, high, low, symbol, allSignals[1].timestamp)
      [] name = "Fear & Greed" ->
             fearGreed(prices, high, low, symbol, allSignals[1].timestamp)
      [] name = "Network Growth" ->
             networkGrowth(prices, high, low, symbol, allSignals[1].timestamp)
      [] name = "On-Chain Analysis" ->
             onChainAnalysis(prices, high, low, symbol, allSignals[1].timestamp)
      [] name = "MVRV Z-Score" ->
             mvrvZScore(prices, high, low, symbol, allSignals[1].timestamp)
      [] name = "NVT Ratio" ->
             nvtRatio(prices, high, low, symbol, allSignals[1].timestamp)
      [] name = "Stock-to-Flow" ->
             stockToFlow(prices, high, low, symbol, allSignals[1].timestamp)
      [] name = "Realized Price" ->
             realizedPrice(prices, high, low, symbol, allSignals[1].timestamp)
      [] name = "Coin Days Destroyed" ->
             coinDaysDestroyed(prices, high, low, symbol, allSignals[1].timestamp)

Called == allSignals # <<>>
Decided == consensus # <<>>
Consensus == consensus[1]
UnitVolumes == [i \in 1..Len(prices) |-> Num(1)]
BuyCount == Len(SelectSeq(allSignals, IsBuy))
SellCount == Len(SelectSeq(allSignals, IsSell))
NonHoldCount == Len(SelectSeq(allSignals, IsNotHold))
WinningCount == IF BuyCount >= SellCount THEN BuyCount ELSE SellCount
CurrentPrice == prices[Len(prices)]

\* C1: getAllSignals returns exactly 58 signals, the name list has exactly 58
\* entries, and the i-th signal is the one the strategy named by the i-th name
\* produces on the same input (compared in the state the call returns in).
C1_PositionalMatch ==
    (Called /\ ~Decided /\ now = allSignals[1].timestamp) =>
        /\ Len(allSignals) = 58
        /\ Len(getAllStrategyNames) = 58
        /\ \A i \in 1..58 : allSignals[i] = StrategyNamed(getAllStrategyNames[i], UnitVolumes)
C1_Witness ==
    /\ Called
    /\ \E i \in 1..25 : allSignals[i].action = "BUY"
    /\ \E i \in 1..25 : allSignals[i].action = "SELL"
    /\ \E i \in 1..25 : allSignals[i].action = "HOLD"

\* C2: in every signal of the 58 strategies and in the consensus signal,
\* the action is HOLD exactly when the confidence is 0.
HoldIffZero(s) == (s.action = "HOLD") <=> (s.confidence = 0)
C2_HoldIffZeroConfidence ==
    /\ \A i \in 1..Len(allSignals) : HoldIffZero(allSignals[i])
    /\ Decided => HoldIffZero(Consensus)
C2_Witness ==
    /\ Called /\ Decided
    /\ Consensus.action # "HOLD"
    /\ \E i \in 1..25 : allSignals[i].action = "HOLD"
    /\ \E i \in 1..25 : allSignals[i].action # "HOLD" /\ allSignals[i].confidence < 100

\* C3: with at least one non-HOLD strategy, a tie of BUY and SELL counts gives
\* SELL, BUY is returned only on a strict BUY majority, and the consensus is
\* never HOLD.
C3_TieBreak ==
    (Decided /\ NonHoldCount > 0) =>
        /\ Consensus.action # "HOLD"
        /\ (BuyCount = SellCount => Consensus.action = "SELL")
        /\ (Consensus.action = "BUY" => BuyCount > SellCount)
C3_Witness == Decided /\ NonHoldCount > 0 /\ BuyCount = SellCount /\ Consensus.action = "SELL"

\* C4: when all 58 signals are HOLD the consensus is the guard signal.
C4_AllHoldGuard ==
    (Decided /\ NonHoldCount = 0) =>
        /\ Consensus.action = "HOLD"
        /\ Consensus.confidence = 0
        /\ Consensus.stopLoss = 0
        /\ Consensus.takeProfit = 0
        /\ Consensus.leverage = 1
        /\ Consensus.duration = "N/A"
        /\ Consensus.reason = "No clear consensus across strategies"
C4_Witness == Decided /\ Len(allSignals) = 58 /\ NonHoldCount = 0

\* C5: with a non-HOLD strategy, the consensus confidence is the mean of the
\* confidences of all non-HOLD signals (losing side included) times
\* max(buyCount, sellCount) / nonHoldCount.
C5_ConsensusConfidence ==
    (Decided /\ NonHoldCount > 0) =>
        Consensus.confidence =
            Mul(DivI(Sum(ConfidenceOf(SelectSeq(allSignals, IsNotHold))), NonHoldCount),
                Div(Num(WinningCount), Num(NonHoldCount)))
C5_Witness ==
    /\ Decided
    /\ BuyCount > SellCount
    /\ SellCount > 0
    /\ \E i, j \in 1..25 : /\ allSignals[i].action = "BUY"
                           /\ allSignals[j].action = "SELL"
                           /\ allSignals[i].confidence # allSignals[j].confidence

\* C6: a non-HOLD consensus has leverage 3, duration '15m-4h', the reason
\* 'Consensus: <winningCount>/<nonHoldCount> strategies agree', and stopLoss and
\* takeProfit at 0.98 and 1.03 of the last close for BUY, 1.02 and 0.97 for SELL.
C6_ConsensusRiskFields ==
    (Decided /\ Consensus.action # "HOLD") =>
        /\ Consensus.leverage = 3
        /\ Consensus.duration = "15m-4h"
        /\ Consensus.reason = "Consensus: " \o ToString(WinningCount) \o "/"
                                 \o ToString(NonHoldCount) \o " strategies agree"
        /\ Consensus.action = "BUY" =>
              /\ Consensus.stopLoss * 100 = CurrentPrice * 98
              /\ Consensus.takeProfit * 100 = CurrentPrice * 103
        /\ Consensus.action = "SELL" =>
              /\ Consensus.stopLoss * 100 = CurrentPrice * 102
              /\ Consensus.takeProfit * 100 = CurrentPrice * 97
C6_Witness == Decided /\ Consensus.action = "BUY" /\ WinningCount < NonHoldCount

\* the reasons of the capability stubs, elliottWave through coinDaysDestroyed
StubReasons ==
    <<
       "Elliott Wave analysis requires manual pattern recognition",
       "Harmonic patterns require manual pattern recognition",
       "Gartley pattern requires manual identification",
       "Butterfly pattern requires manual identification",
       "Bat pattern requires manual identification",
       "Crab pattern requires manual identification",
       "Cypher pattern requires manual identification",
       "Deep Learning AI requires trained model",
       "Neural Network requires trained model",
       "Genetic Algorithm requires optimization",
       "Reinforcement Learning requires trained agent",
       "Sentiment Analysis requires external data",
       "Social Volume requires social media data",
       "Whale Tracking requires on-chain data",
       "Liquidity Analysis requires order book data",
       "Market Cycle requires long-term data",
       "Seasonality requires historical seasonal data",
       "Correlation Matrix requires multiple assets",
       "Volatility Smile requires options data",
       "Gamma Exposure requires options flow data",
       "Delta Neutral requires options positions",
       "Options Flow requires options market data",
       "Funding Rate requires perpetual swap data",
       "Open Interest requires futures market data",
       "Leverage Ratio requires margin trading data",
       "Fear & Greed requires sentiment indicators",
       "Network Growth requires blockchain data",
       "On-Chain Analysis requires blockchain metrics",
       "MVRV Z-Score requires market value vs realized value data",
       "NVT Ratio requires network value to transaction ratio",
       "Stock-to-Flow requires supply issuance data",
       "Realized Price requires UTXO age data",
       "Coin Days Destroyed requires coin movement data"
    >>

\* C7: every capability stub (positions 26 to 58 of the catalogue) returns HOLD
\* with confidence 0, stopLoss 0, takeProfit 0, leverage 1, duration 'N/A' and
\* a reason that is one fixed string per stub, whatever the input series.
C7_StubsHold ==
    Called =>
        \A k \in 1..33 :
            LET s == allSignals[25 + k]
            IN /\ s.action = "HOLD"
               /\ s.confidence = 0
               /\ s.stopLoss = 0
               /\ s.takeProfit = 0
               /\ s.leverage = 1
               /\ s.duration = "N/A"
               /\ s.reason = StubReasons[k]
C7_Witness ==
    /\ Called
    /\ Len(prices) >= 52
    /\ \E i \in 1..25 : allSignals[i].action # "HOLD"
    /\ \E i, j \in 1..Len(prices) : prices[i] # prices[j]

\* the signal of the strategy with the given catalogue name
SignalOf(name) == allSignals[CHOOSE i \in 1..Len(getAllStrategyNames) : getAllStrategyNames[i] = name]

\* the insufficient-data guard signal, whatever its reason
IsGuard(s) ==
    /\ s.action = "HOLD"
    /\ s.confidence = 0
    /\ s.stopLoss = 0
    /\ s.takeProfit = 0
    /\ s.leverage = 1
    /\ s.duration = "N/A"

\* C8: every strategy with a minimum bar count (MACD-based 26, Ichimoku 52,
\* RSI-based and ADX 14, the trend strategies from 10) returns the guard signal
\* (HOLD, confidence 0, stopLoss 0, takeProfit 0, leverage 1, duration 'N/A')
\* when it is called with fewer bars.
C8_GuardBelowMinimumBars ==
    LET minimumBars ==
            { <<"Trend Following MACD", 26>>, <<"MACD Histogram", 26>>,
              <<"Volume-Weighted MACD", 26>>, <<"Ichimoku Cloud", 52>>,
              <<"Multi-Timeframe RSI", 14>>, <<"RSI Divergence", 14>>, <<"ADX Momentum", 14>>,
              <<"Moving Average Cross", 10>>, <<"Supertrend Strategy", 10>> }
    IN Called =>
           \A m \in minimumBars : Len(prices) < m[2] => IsGuard(SignalOf(m[1]))

\* C9: on a series of fewer than 26 points calculateMACD returns macd 0,
\* signal 0 and histogram 0, and trendFollowingMACD returns HOLD.
C9_ShortSeriesMACDHold ==
    (Called /\ Len(prices) < 26) =>
        /\ calculateMACD(prices) = [macd |-> 0, signal |-> 0, histogram |-> 0]
        /\ SignalOf("Trend Following MACD").action = "HOLD"

\* the inputs are index-aligned, positive, with low <= close <= high
AlignedPositive ==
    /\ Len(high) = Len(prices)
    /\ Len(low) = Len(prices)
    /\ \A i \in 1..Len(prices) :
          /\ Gt(low[i], 0)
          /\ Le(low[i], prices[i])
          /\ Le(prices[i], high[i])

\* C10: on aligned positive data every signal has stopLoss and takeProfit both
\* 0, or on the correct side of its price: stopLoss < price < takeProfit for
\* BUY, takeProfit < price < stopLoss for SELL (a HOLD signal has no side).
C10_LevelsOnCorrectSide ==
    (Called /\ AlignedPositive) =>
        \A i \in 1..Len(allSignals) :
            LET s == allSignals[i]
            IN \/ s.stopLoss = 0 /\ s.takeProfit = 0
               \/ s.action = "HOLD"
               \/ s.action = "BUY" /\ Lt(s.stopLoss, s.price) /\ Lt(s.price, s.takeProfit)
               \/ s.action = "SELL" /\ Lt(s.takeProfit, s.price) /\ Lt(s.price, s.stopLoss)

\* C11: on aligned positive data with low <= close <= high, every signal of the
\* 58 strategies and the consensus signal have a confidence that is a number
\* with 0 <= confidence <= 1.
C11_ConfidenceInUnitInterval ==
    AlignedPositive =>
        /\ \A i \in 1..Len(allSignals) :
              Ge(allSignals[i].confidence, 0) /\ Le(allSignals[i].confidence, Num(1))
        /\ Decided => Ge(Consensus.confidence, 0) /\ Le(Consensus.confidence, Num(1))
C11_Witness ==
    /\ AlignedPositive /\ Called /\ Decided
    /\ SignalOf("Volume-Weighted MACD").confidence = 900
    /\ SignalOf("Mean Reversion BB").action # "HOLD"
    /\ Consensus.action # "HOLD"

\* the state getAllSignals returns in, before anything else happens
Returned == Called /\ ~Decided /\ now = allSignals[1].timestamp

\* the periods calculateRSI is called with (multiTimeframeRSI: 5, 14, 21)
RsiPeriods == {5, 14, 21}
\* the average loss over the last `period` changes is nonzero: one of these
\* changes is a fall
LossInWindow(period) ==
    \E i \in 2..Len(prices) : i > Len(prices) - period /\ prices[i] < prices[i - 1]

\* C12: calculateRSI(prices, period) is exactly value 50, HOLD, strength 0 when
\* prices.length < period + 1; otherwise, when the average loss over the last
\* `period` changes is nonzero, its value is a number in [0, 100] (on the
\* series of each analysis, for the periods 5, 14 and 21).
C12_RsiDefaultAndRange ==
    Returned =>
        \A period \in RsiPeriods :
            /\ Len(prices) < period + 1 =>
                   calculateRSI(prices, period) = [value |-> Num(50), signal |-> "HOLD", strength |-> 0]
            /\ (Len(prices) >= period + 1 /\ LossInWindow(period)) =>
                   /\ Ge(calculateRSI(prices, period).value, 0)
                   /\ Le(calculateRSI(prices, period).value, Num(100))
C12_Witness ==
    /\ Returned
    /\ Len(prices) = 14
    /\ LossInWindow(5)
    /\ calculateRSI(prices, 5).value # Num(50)
    /\ calculateRSI(prices, 5).value > 0
    /\ calculateRSI(prices, 5).value < Num(100)

\* every close of the series is the same
Flat == \A i \in 1..Len(prices) : prices[i] = prices[1]

\* C13: on a flat series of 30 identical closes calculateRSI with period 14
\* returns value exactly 50 and HOLD, and the value is neither NaN nor infinite.
C13_FlatSeriesRsiNeutral ==
    (Len(prices) = 30 /\ Flat) =>
        /\ calculateRSI(prices, 14).value = Num(50)
        /\ calculateRSI(prices, 14).signal = "HOLD"
        /\ IsNum(calculateRSI(prices, 14).value)

\* C14: calculateStochastic (period 14) returns a value in [0, 100] when the
\* highest high and the lowest low of the last 14 bars differ, and the default
\* value 50, HOLD, strength 0 when they are equal.
C14_StochasticRangeAndDefault ==
    (Len(prices) >= 14 /\ AlignedPositive) =>
        /\ MaxOf(SliceLast(high, 14)) # MinOf(SliceLast(low, 14)) =>
               /\ Ge(calculateStochastic(prices, high, low, 14).value, 0)
               /\ Le(calculateStochastic(prices, high, low, 14).value, Num(100))
        /\ MaxOf(SliceLast(high, 14)) = MinOf(SliceLast(low, 14)) =>
               calculateStochastic(prices, high, low, 14)
                   = [value |-> Num(50), signal |-> "HOLD", strength |-> 0]

\* a returned TradeSignal: all ten fields, an action of the three, numbers
\* (NaN and the infinities included) in the numeric fields
SignalFields ==
    {"symbol", "action", "confidence", "price", "timestamp", "duration", "reason",
     "stopLoss", "takeProfit", "leverage"}
IsSignal(s) ==
    /\ DOMAIN s = SignalFields
    /\ s.action \in {"BUY", "SELL", "HOLD"}
    /\ s.symbol = symbol
    /\ {s.confidence, s.price, s.stopLoss, s.takeProfit, s.leverage} \subseteq Int

\* C16: for any numeric input, empty and short arrays and short high and low
\* arrays included, getAllSignals returns its 58 signals and getConsensusSignal
\* returns a signal: no call ends in a fault.
C16_NeverFaults ==
    /\ Called => Len(allSignals) = 58 /\ \A i \in 1..Len(allSignals) : IsSignal(allSignals[i])
    /\ Decided => Len(consensus) = 1 /\ IsSignal(Consensus)
C16_Witness ==
    /\ Called /\ Decided
    /\ Len(prices) >= 26
    /\ Len(high) < Len(prices)
    /\ Len(low) = 0
    /\ Consensus.action # "HOLD"

\* the classification of an oscillator reading r against the thresholds
\* lowBar and highBar: below lowBar BUY with strength (lowBar - value) / lowBar,
\* above highBar SELL with strength (value - highBar) / lowBar, otherwise HOLD
\* with strength 0; and the strength is a number in [0, 1]
Classified(r, lowBar, highBar) ==
    /\ r.signal \in {"BUY", "SELL", "HOLD"}
    /\ Lt(r.value, Num(lowBar)) =>
           r.signal = "BUY" /\ r.strength = DivI(Sub(Num(lowBar), r.value), lowBar)
    /\ Gt(r.value, Num(highBar)) =>
           r.signal = "SELL" /\ r.strength = DivI(Sub(r.value, Num(highBar)), lowBar)
    /\ (~Lt(r.value, Num(lowBar)) /\ ~Gt(r.value, Num(highBar))) =>
           r.signal = "HOLD" /\ r.strength = 0
    /\ Ge(r.strength, 0) /\ Le(r.strength, Num(1))

C17_ReferentiallyTransparent ==
    /\ Called => getAllSignals(prices, high, low, symbol, now) = allSignals
    /\ Decided => getConsensusSignal(prices, high, low, symbol, now) = Consensus

\* every close is above the one before
StrictlyIncreasing == \A i \in 2..Len(prices) : prices[i] > prices[i - 1]

\* C18: movingAverageCross returns BUY with confidence 0.75 when SMA(10) >
\* SMA(20), in particular on a strictly increasing series of 60 closes, SELL
\* with confidence 0.75 when SMA(10) < SMA(20), and HOLD with confidence 0 when
\* the two are equal.
C18_MovingAverageCross ==
    Called =>
        /\ Gt(calculateSMA(prices, 10), calculateSMA(prices, 20)) =>
               /\ SignalOf("Moving Average Cross").action = "BUY"
               /\ SignalOf("Moving Average Cross").confidence = 750
        /\ Lt(calculateSMA(prices, 10), calculateSMA(prices, 20)) =>
               /\ SignalOf("Moving Average Cross").action = "SELL"
               /\ SignalOf("Moving Average Cross").confidence = 750
        /\ StrictEq(calculateSMA(prices, 10), calculateSMA(prices, 20)) =>
               /\ SignalOf("Moving Average Cross").action = "HOLD"
               /\ SignalOf("Moving Average Cross").confidence = 0
        /\ (Len(prices) = 60 /\ StrictlyIncreasing) =>
               /\ SignalOf("Moving Average Cross").action = "BUY"
               /\ SignalOf("Moving Average Cross").confidence = 750
C18_Witness ==
    /\ Called
    /\ Len(prices) = 60
    /\ StrictlyIncreasing
    /\ prices[1] = Num(100) /\ prices[60] = Num(159)
    /\ high[60] = Num(160) /\ low[60] = Num(158)
    /\ SignalOf("Moving Average Cross").action = "BUY"

\* the votes and the accumulated contributions of the three voting strategies,
\* read off their condition lists: buy the number of conditions that vote BUY,
\* sell the number that vote SELL, total the sum of the contributions of both
VotesOfRsi(rsi5, rsi14, rsi21, up, down) ==
    [buy |-> B(rsi5.signal = "BUY") + B(rsi14.signal = "BUY") + B(rsi21.signal = "BUY") + B(up),
     sell |-> B(rsi5.signal = "SELL") + B(rsi14.signal = "SELL") + B(rsi21.signal = "SELL") + B(down),
     total |-> Add(Add(Add(Add(rsi5.strength, rsi14.strength), rsi21.strength),
                       IF up THEN 200 ELSE 0),
                   IF down THEN 200 ELSE 0)]
VotesMultiTimeframeRSI ==
    VotesOfRsi(calculateRSI(SliceLast(prices, 5), 5), calculateRSI(prices, 14),
               calculateRSI(SliceLast(prices, 21), 21),
               Gt(Last(prices), Mul(calculateSMA(prices, 20), 1020)),
               Lt(Last(prices), Mul(calculateSMA(prices, 20), 980)))
VotesOfMacd(macd, emaBuy, priceBuy) ==
    [buy |-> B(Gt(macd.macd, macd.signal) /\ Gt(macd.histogram, 0)) + B(emaBuy) + B(priceBuy),
     sell |-> B(Lt(macd.macd, macd.signal) /\ Lt(macd.histogram, 0)) + B(~emaBuy) + B(~priceBuy),
     total |-> Add(Add(IF (Gt(macd.macd, macd.signal) /\ Gt(macd.histogram, 0))
                          \/ (Lt(macd.macd, macd.signal) /\ Lt(macd.histogram, 0))
                       THEN Min2(MulI(Abs(macd.histogram), 100), 300) ELSE 0,
                       200),
                   100)]
VotesTrendFollowingMACD ==
    VotesOfMacd(calculateMACD(prices),
                Gt(calculateEMA(prices, 9), calculateEMA(prices, 21)),
                Gt(Last(prices), calculateEMA(prices, 21)))
VotesOfBands(bb, rsi, stochastic, currentPrice) ==
    [buy |-> B(Lt(currentPrice, bb.lower)) + B(rsi.signal = "BUY") + B(stochastic.signal = "BUY"),
     sell |-> B(Gt(currentPrice, bb.upper)) + B(rsi.signal = "SELL") + B(stochastic.signal = "SELL"),
     total |-> Add(Add(Add(IF Lt(currentPrice, bb.lower)
                           THEN Min2(MulI(Div(Sub(bb.lower, currentPrice), bb.lower), 1000), 400)
                           ELSE 0,
                           IF Gt(currentPrice, bb.upper)
                           THEN Min2(MulI(Div(Sub(currentPrice, bb.upper), bb.upper), 1000), 400)
                           ELSE 0),
                       rsi.strength),
                   stochastic.strength)]
VotesMeanReversionBB ==
    VotesOfBands(calculateBollingerBands(prices, 20), calculateRSI(prices, 14),
                 calculateStochastic(prices, high, low, 14), Last(prices))

\* the signal s is the outcome of the votes v with the given divisor and cap
Voted(s, v, divisor, cap) ==
    /\ v.buy > v.sell => s.action = "BUY"
    /\ v.sell > v.buy => s.action = "SELL"
    /\ v.buy = v.sell => s.action = "HOLD"
    /\ s.action # "HOLD" => s.confidence = Min2(DivI(v.total, divisor), cap)

\* C19: in multiTimeframeRSI, trendFollowingMACD and meanReversionBB the action
\* is BUY on more buy votes, SELL on more sell votes, else HOLD, and a non-HOLD
\* confidence is min(accumulated contributions / divisor, cap) with divisor and
\* cap 4 and 0.95, 3 and 0.9, 3 and 0.85; the accumulator holds the
\* contributions of both sides.
C19_VotingStrategies ==
    Returned =>
        /\ Voted(SignalOf("Multi-Timeframe RSI"), VotesMultiTimeframeRSI, 4, 950)
        /\ Voted(SignalOf("Trend Following MACD"), VotesTrendFollowingMACD, 3, 900)
        /\ Voted(SignalOf("Mean Reversion BB"), VotesMeanReversionBB, 3, 850)
C19_Witness ==
    /\ Returned
    /\ SignalOf("Trend Following MACD").action = "BUY"
    /\ VotesTrendFollowingMACD.sell = 1
    /\ VotesTrendFollowingMACD.total > 300
    /\ SignalOf("Mean Reversion BB").action # "HOLD"
    /\ SignalOf("Multi-Timeframe RSI").action # "HOLD"

\* the series with every price older than the last 26 raised by 7
OlderChanged ==
    [i \in 1..Len(prices) |-> IF i <= Len(prices) - 26 THEN prices[i] + Num(7) ELSE prices[i]]

\* C20: on a series of at least 26 prices calculateMACD returns macd = EMA(12)
\* - EMA(26) of the full series, signal = EMA(9) of the last 26 prices only, so
\* that the signal is the same after the older prices change, and histogram =
\* macd - signal.
C20_MacdSignalWindow ==
    (Returned /\ Len(prices) >= 26) =>
        /\ calculateMACD(prices).macd = Sub(calculateEMA(prices, 12), calculateEMA(prices, 26))
        /\ calculateMACD(prices).signal = calculateEMA(SliceLast(prices, 26), 9)
        /\ calculateMACD(prices).histogram
               = Sub(calculateMACD(prices).macd, calculateMACD(prices).signal)
        /\ calculateMACD(OlderChanged).signal = calculateMACD(prices).signal
C20_Witness ==
    /\ Returned
    /\ Len(prices) > 26
    /\ calculateMACD(OlderChanged).macd # calculateMACD(prices).macd
    /\ calculateMACD(prices).signal # calculateEMA(prices, 9)
    /\ calculateMACD(prices).histogram # 0

\* the true ranges of the bars after the first:
\* max(high - low, |high - prevClose|, |low - prevClose|)
TrueRanges ==
    [i \in 1..(Len(high) - 1) |->
        Max2(Max2(Sub(high[i + 1], low[i + 1]), Abs(Sub(high[i + 1], prices[i]))),
             Abs(Sub(low[i + 1], prices[i])))]

\* C21: calculateATR(high, low, prices, 14) is 0 on a series of fewer than 14
\* bars, and on every series of at least 14 bars, 14 included, it is the mean
\* of the last 14 true ranges.
C21_AtrMeanTrueRange ==
    AlignedPositive =>
        /\ Len(high) < 14 => calculateATR(high, low, prices, 14) = 0
        /\ Len(high) >= 14 =>
               calculateATR(high, low, prices, 14) = DivI(Sum(SliceLast(TrueRanges, 14)), 14)

\* the default of calculateRSI
RsiDefault == [value |-> Num(50), signal |-> "HOLD", strength |-> 0]

MacdRule(macd) ==
    IF Gt(macd.macd, macd.signal) /\ Gt(macd.histogram, 0) THEN "BUY"
    ELSE IF Lt(macd.macd, macd.signal) /\ Lt(macd.histogram, 0) THEN "SELL"
    ELSE "HOLD"

\* C23: getAllSignals passes the volume 1 for every bar, so the signals of
\* 'Volume Profile' and 'Order Flow' are HOLD for every input and the action of
\* 'Volume-Weighted MACD' is that of the MACD rule on the unweighted prices.
C23_UnitVolumes ==
    Called =>
        /\ SignalOf("Volume Profile").action = "HOLD"
        /\ SignalOf("Order Flow").action = "HOLD"
        /\ SignalOf("Volume-Weighted MACD").action = MacdRule(calculateMACD(prices))
C23_Witness ==
    /\ Called
    /\ Len(prices) >= 26
    /\ prices[Len(prices)] # prices[Len(prices) - 1]
    /\ SignalOf("Volume-Weighted MACD").action # "HOLD"

\* C24: on index-aligned bars with positive prices and low <= close <= high,
\* at least 10 of them, parabolicSAR returns HOLD (its 'No reversal' result):
\* the close is never above 1.01 times the highest high of the last 5 bars nor
\* below 0.99 times their lowest low.
C24_ParabolicSarHolds ==
    (Called /\ AlignedPositive /\ Len(prices) >= 10) =>
        /\ ~Gt(Last(prices), Mul(MaxOf(SliceLast(high, 5)), 1010))
        /\ ~Lt(Last(prices), Mul(MinOf(SliceLast(low, 5)), 990))
        /\ SignalOf("Parabolic SAR").action = "HOLD"
        /\ SignalOf("Parabolic SAR").reason = "Parabolic SAR: No reversal"
C24_Witness ==
    /\ Called /\ AlignedPositive
    /\ Len(prices) >= 10
    /\ Lt(Mul(prices[Len(prices)], 1010), prices[Len(prices) - 1])
    /\ SignalOf("Parabolic SAR").action = "HOLD"

\* C25: on a series of positive prices with fewer than 200 bars marketStructure
\* never returns SELL and every BUY it returns has stopLoss 0, SMA(200) being
\* the insufficient-data default 0.
C25_MarketStructureBelow200 ==
    (Called /\ Len(prices) < 200 /\ \A i \in 1..Len(prices) : prices[i] > 0) =>
        /\ calculateSMA(prices, 200) = 0
        /\ SignalOf("Market Structure").action # "SELL"
        /\ SignalOf("Market Structure").action = "BUY" =>
               SignalOf("Market Structure").stopLoss = 0
C25_Witness ==
    /\ Called
    /\ Len(prices) >= 50
    /\ SignalOf("Market Structure").action = "BUY"
    /\ SignalOf("Market Structure").stopLoss = 0

\* C26: a non-HOLD consensus has the reason 'Consensus: k/n strategies agree'
\* where n is the number of non-HOLD signals getAllSignals returns for the same
\* input, 1 <= n <= 25, no stub among them, and n/2 <= k <= n.
C26_ConsensusCounts ==
    (Decided /\ Consensus.action # "HOLD") =>
        /\ \A i \in 26..58 : allSignals[i].action = "HOLD"
        /\ \E n \in 1..25 : \E k \in 1..n :
              /\ Consensus.reason = "Consensus: " \o ToString(k) \o "/" \o ToString(n)
                                        \o " strategies agree"
              /\ n = Cardinality({i \in 1..Len(allSignals) : allSignals[i].action # "HOLD"})
              /\ 2 * k >= n
C26_Witness ==
    /\ Decided
    /\ Consensus.action = "SELL"
    /\ BuyCount = SellCount
    /\ NonHoldCount >= 4


\* C27: when loadCoinDetails was started for a coin and then, before that
\* fetch settled, for another coin, and both fetches have delivered their
\* analysis, the analysis shown is that of the coin requested last
C27_MostRecentRequestShown ==
    (/\ Len(detailRequests) = 2
     /\ \A i \in 1..2 : ~IsPending(i)
     /\ detailRequests[1].symbol # detailRequests[2].symbol
     /\ selectedCoin # <<>>)
        => selectedCoin[1].symbol = detailRequests[2].symbol

\* C28: no symbol has more than one computeSignalForSymbol request in flight
\* (a symbol is requested at most once until its signal is stored)
C28_OneRequestPerSymbol == \A s \in CoinSet : signalRequests[s] <= 1

\* C29: the current page is between 1 and max(1, totalPages) of the filtered
\* list in every state
C29_CurrentPageInRange ==
    /\ currentPage >= 1
    /\ currentPage <= Max2(1, totalPages(filteredCoins(symbols, activeTab, coinSignals,
                                                      searchQuery)))

\* an entry of the upstream list that is complete, trading, quoted in USDT and
\* has no '_' in its name
Eligible(s) ==
    /\ DOMAIN s = {"symbol", "status", "quoteAsset"}
    /\ s.status = "TRADING"
    /\ s.quoteAsset = "USDT"
    /\ \A i \in 1..Len(s.symbol) : s.symbol[i] # "_"
Listable(list) == {i \in 1..Len(list) : Eligible(list[i])}
Nameless(s) ==
    \/ DOMAIN s = {"null"}
    \/ "symbol" \notin DOMAIN s /\ s.status = "TRADING" /\ s.quoteAsset = "USDT"
\* the upstream fetch failed, answered with a status that is not OK, or gave
\* a body that is no JSON, has no symbols list, or has in that list a null or
\* a trading USDT entry without a name
UpstreamFailed ==
    \/ upstream.kind = "rejected"
    \/ upstream.status # 200
    \/ ~upstream.body.json
    \/ "symbols" \notin DOMAIN upstream.body.data
    \/ \E i \in 1..Len(upstream.body.data.symbols) : Nameless(upstream.body.data.symbols[i])

\* C30: the handler returns a response for every outcome of the upstream
\* fetch: status 500 with an error object when the fetch fails, is not OK or
\* yields a malformed body, and otherwise a list of at most 850 names in
\* ascending order, each the name of an entry with status TRADING, quote
\* asset USDT and no '_' in it
C30_AlwaysAResponse ==
    response # <<>> =>
        IF UpstreamFailed
        THEN /\ response[1].status = 500
             /\ DOMAIN response[1].body = {"error"}
        ELSE /\ response[1].status = 200
             /\ Len(response[1].body) <= 850
             /\ \A i \in 1..(Len(response[1].body) - 1) :
                   ~Precedes(response[1].body[i + 1], response[1].body[i])
             /\ \A i \in 1..Len(response[1].body) :
                   \E j \in Listable(upstream.body.data.symbols) :
                       upstream.body.data.symbols[j].symbol = response[1].body[i]

C30_Witness ==
    /\ response # <<>>
    /\ ~UpstreamFailed
    /\ Cardinality(Listable(upstream.body.data.symbols)) > 850
    /\ Len(response[1].body) = 850

====
